---------------------------- MODULE Spec2Model ----------------------------
(***************************************************************************)
(* WebJarvis (WebCopilot): the per-tab conversation session manager        *)
(* (src/src/lib/tab-chat-manager.ts), the chat hooks                        *)
(* (src/src/hooks/useChat.ts) and the background message handler            *)
(* (src/src/hooks/useExtensionState.ts, class BackgroundServiceWorker).     *)
(*                                                                         *)
(* chrome.storage.local is a map from storage keys to JSON values.  The    *)
(* value under 'tabChatContexts' is a JavaScript object; it is modelled as *)
(* the sequence of its entries in insertion order, which is the order      *)
(* Object.entries and Object.keys enumerate.  Storage calls are assumed to *)
(* succeed (every manager method catches and logs a storage failure).      *)
(*                                                                         *)
(* Time: Date.now() is the variable clock, counted in units of 12 hours,   *)
(* so that MAX_AGE (24 hours) is 2 units.                                  *)
(***************************************************************************)
EXTENDS Integers, Sequences, FiniteSets, TLC

VARIABLES
    store,       \* chrome.storage.local['tabChatContexts']: entries [key, ctx]
    clock,       \* Date.now()
    openTabs,    \* ids of the tabs chrome.tabs.query({}) returns
    ret,         \* the operation completed last and what it returned
    ops,         \* number of manager operations run so far
    hook,        \* the state of each chat hook instance of the popup
    storedChatHistory, \* chrome.storage.local['chatHistory']
    turns,       \* number of sendMessage calls so far
    router,      \* the background's message listener: request and sendResponse calls
    call,        \* the library function called last: its arguments and its result
    templates,   \* chrome.storage.local['promptTemplates'] and the last TemplateManager call
    procs        \* the TabChatManager calls in flight, each at one of its awaits

vars == <<store, clock, openTabs, ret, ops, hook, storedChatHistory, turns,
          router, call, templates, procs>>

chatVars == <<hook, storedChatHistory, turns, router>>

\* The template store and the calls in flight, which the steps of the other
\* components leave alone
otherVars == <<templates, procs>>

----------------------------------------------------------------------------
(* Bounds of the model *)

MaxClock == 3
\* The source's MAX_CONTEXTS is 50; the count cap is scaled down so that the
\* model's four composite keys can exceed it.
MAX_CONTEXTS == 1
\* Calls of getTabContext, saveTabContext, updateChatHistory and
\* removeTabContext in one behaviour; the cleanup pass is not counted.
MaxOps == 2
\* Calls of sendMessage in one behaviour, over both chat hooks
MaxTurns == 2
\* Requests the background's message listener receives in one behaviour
MaxRequests == 2
\* Words in a query or chunk text given to the relevance scorer
MaxWords == 2
\* Chunks in a list given to searchRelevantChunks and buildContextText
MaxChunks == 3
\* The largest topK given to searchRelevantChunks (the source's default is 5)
MaxTopK == 2
\* The source's MAX_CONTEXT_LENGTH is 4000 characters; scaled down so that
\* two of the model's shorter blocks fit and three blocks do not
MAX_CONTEXT_LENGTH == 36
\* The source's chunk size (CHUNK_SIZE, maxChunkSize) is 1000 characters;
\* scaled down, and large enough for a sentence break before the last
\* character of a window to pass the 70% test
CHUNK_SIZE == 7
\* Length of the texts over letters, sentence terminators and white space
MaxTextLen == 8
\* Length of the texts over letters and sentence terminators, long enough for
\* three chunks
MaxLongLen == 14
\* Number of texts handed to one computeEmbeddings call
MaxTexts == 2
\* Calls of TemplateManager methods in one behaviour
MaxTemplateOps == 2
\* Entries of an array given to importTemplates
MaxImport == 2
\* handleProcessChatMessage takes history.slice(-8) and cuts each message
\* with slice(0, 800); both numbers are scaled down
TRANSCRIPT_MESSAGES == 2
SNIPPET_LENGTH == 3
\* Messages in a chat history given to the transcript builder
MaxHistory == 3

\* Calls of TabChatManager methods made while the service worker runs
MaxProcs == 2

(* Program constants *)

\* 24 * 60 * 60 * 1000 ms = 2 units of 12 hours
MAX_AGE == 2

(* Input domains *)

TabIds == {1, 11}
\* '' is the popup's initial sessionKey state (popup.tsx, useState<string>(''))
SessionKeys == {"", "a"}
Urls == {"u1", "u2"}
\* The page a popup is opened on: its url, its title and the extracted
\* pageContent?: PageContent ("undefined" when the optional field is absent)
Pages == {[url |-> "u1", title |-> "t1", pageContent |-> "undefined"],
          [url |-> "u2", title |-> "t2", pageContent |-> "page"]}

UserMsg == [role |-> "user", content |-> "q"]
AssistantMsg == [role |-> "assistant", content |-> "r"]
Histories == {<<>>, <<UserMsg, AssistantMsg>>}

\* sessionKey?: string -- the argument of removeTabContext may be omitted
OptSessionKeys == SessionKeys \cup {"undefined"}

----------------------------------------------------------------------------
(* The contexts object: Record<string, TabChatContext> *)

HasKey(contexts, key) == \E i \in DOMAIN contexts : contexts[i].key = key

Lookup(contexts, key) ==
    contexts[CHOOSE i \in DOMAIN contexts : contexts[i].key = key].ctx

\* contexts[key] = context: an existing property keeps its place, a new one
\* is added last
SetKey(contexts, key, context) ==
    IF HasKey(contexts, key)
    THEN [i \in DOMAIN contexts |->
            IF contexts[i].key = key THEN [key |-> key, ctx |-> context]
            ELSE contexts[i]]
    ELSE Append(contexts, [key |-> key, ctx |-> context])

\* delete contexts[key]
DeleteKey(contexts, key) ==
    LET keep(e) == e.key # key IN SelectSeq(contexts, keep)

Keys(contexts) == {contexts[i].key : i \in DOMAIN contexts}

Values(contexts) == {contexts[i].ctx : i \in DOMAIN contexts}

----------------------------------------------------------------------------
(* TabChatManager *)

\* (mutant: the key without the separator between tab id and session key)
generateContextKey_NoSeparator(tabId, sessionKey) ==
    "tab_" \o ToString(tabId) \o sessionKey

generateContextKey(tabId, sessionKey) ==
    "tab_" \o ToString(tabId) \o "_" \o sessionKey

\* saveContext: read the object, assign the context under its own key, write
saveContext(contexts, context) ==
    SetKey(contexts, generateContextKey(context.tabId, context.sessionKey), context)

\* `if (sessionKey)`: undefined and the empty string are both falsy
Truthy(sessionKey) == sessionKey # "undefined" /\ sessionKey # ""

NewContext(tabId, url, title, sessionKey, chatHistory, pageContent, now) ==
    [tabId |-> tabId, url |-> url, title |-> title, sessionKey |-> sessionKey,
     chatHistory |-> chatHistory, pageContent |-> pageContent,
     createdAt |-> now, lastAccessedAt |-> now]

\* (mutant: a hit without the stale-session guard on the url)
getTabContextHit_NoUrlGuard(contexts, tabId, url, sessionKey) ==
    HasKey(contexts, generateContextKey(tabId, sessionKey))

\* getTabContext: the context returned (<<>> for null) ...
getTabContextHit(contexts, tabId, url, sessionKey) ==
    LET contextKey == generateContextKey(tabId, sessionKey) IN
    HasKey(contexts, contextKey) /\ Lookup(contexts, contextKey).url = url

getTabContextValue(contexts, tabId, url, sessionKey, now) ==
    LET contextKey == generateContextKey(tabId, sessionKey) IN
    IF getTabContextHit(contexts, tabId, url, sessionKey)
    THEN <<[Lookup(contexts, contextKey) EXCEPT !.lastAccessedAt = now]>>
    ELSE <<>>

\* ... and the object in the store when it returns
getTabContextStore(contexts, tabId, url, sessionKey, now) ==
    LET value == getTabContextValue(contexts, tabId, url, sessionKey, now) IN
    IF value # <<>> THEN saveContext(contexts, value[1]) ELSE contexts

saveTabContextStore(contexts, tabId, url, title, sessionKey, chatHistory, pageContent, now) ==
    saveContext(contexts,
        NewContext(tabId, url, title, sessionKey, chatHistory, pageContent, now))

\* (mutant: the patch applied to every session of the tab)
updateChatHistoryStore_AllSessions(contexts, tabId, sessionKey, chatHistory, now) ==
    [i \in DOMAIN contexts |->
        IF contexts[i].ctx.tabId = tabId
        THEN [contexts[i] EXCEPT !.ctx.chatHistory = chatHistory,
                                 !.ctx.lastAccessedAt = now]
        ELSE contexts[i]]

\* (mutant: the record rebuilt as saveTabContext builds it, createdAt reset)
updateChatHistoryStore_Recreate(contexts, tabId, sessionKey, chatHistory, now) ==
    LET contextKey == generateContextKey(tabId, sessionKey) IN
    IF HasKey(contexts, contextKey)
    THEN saveContext(contexts,
            [Lookup(contexts, contextKey) EXCEPT
                !.chatHistory = chatHistory, !.lastAccessedAt = now,
                !.createdAt = now])
    ELSE contexts

updateChatHistoryStore(contexts, tabId, sessionKey, chatHistory, now) ==
    LET contextKey == generateContextKey(tabId, sessionKey) IN
    IF HasKey(contexts, contextKey)
    THEN saveContext(contexts,
            [Lookup(contexts, contextKey) EXCEPT
                !.chatHistory = chatHistory, !.lastAccessedAt = now])
    ELSE contexts

removeTabContextStore(contexts, tabId, sessionKey) ==
    IF Truthy(sessionKey)
    THEN DeleteKey(contexts, generateContextKey(tabId, sessionKey))
    ELSE LET keep(e) == e.ctx.tabId # tabId IN SelectSeq(contexts, keep)

\* Array.prototype.sort with (a, b) => b.lastAccessedAt - a.lastAccessedAt is
\* stable: an entry goes after every entry accessed at least as recently
RECURSIVE InsertSorted(_, _)
InsertSorted(sorted, e) ==
    IF sorted = <<>> THEN <<e>>
    ELSE IF Head(sorted).ctx.lastAccessedAt >= e.ctx.lastAccessedAt
         THEN <<Head(sorted)>> \o InsertSorted(Tail(sorted), e)
         ELSE <<e>> \o sorted

RECURSIVE SortByLastAccessed(_)
SortByLastAccessed(entries) ==
    IF entries = <<>> THEN <<>>
    ELSE InsertSorted(SortByLastAccessed(SubSeq(entries, 1, Len(entries) - 1)),
                      entries[Len(entries)])

\* (mutant: no record is ever past the maximum age)
InAgeWindow_NeverExpires(context, now) == TRUE

InAgeWindow(context, now) == (now - context.lastAccessedAt) < MAX_AGE

\* (mutant: slice(0, -1), the last entry is always cut)
Slice_DropLast(entries, n) == SubSeq(entries, 1, Len(entries) - 1)

Slice(entries, n) == SubSeq(entries, 1, IF Len(entries) < n THEN Len(entries) ELSE n)

\* (mutant: the count cap applied without sorting by lastAccessedAt)
cleanupContextsStore_NoSort(contexts, now) ==
    LET young(e) == InAgeWindow(e.ctx, now)
        contextEntries == SelectSeq(contexts, young)
        validContexts == Slice(contextEntries, MAX_CONTEXTS)
        removedCount == Len(contexts) - Len(validContexts)
    IN  IF removedCount > 0 THEN validContexts ELSE contexts

cleanupContextsStore(contexts, now) ==
    LET young(e) == InAgeWindow(e.ctx, now)
        contextEntries == SortByLastAccessed(SelectSeq(contexts, young))
        validContexts == Slice(contextEntries, MAX_CONTEXTS)
        removedCount == Len(contexts) - Len(validContexts)
    IN  IF removedCount > 0 THEN validContexts ELSE contexts

\* (mutant: cleanupNeeded is never set, so nothing is written)
validateAndCleanupTabsStore_NeverNeeded(contexts, openTabIds) == contexts

validateAndCleanupTabsStore(contexts, openTabIds) ==
    LET open(e) == e.ctx.tabId \in openTabIds
        validContexts == SelectSeq(contexts, open)
        cleanupNeeded == \E i \in DOMAIN contexts : ~open(contexts[i])
    IN  IF cleanupNeeded THEN validContexts ELSE contexts

----------------------------------------------------------------------------
(* The chat hooks of the popup and the messages they exchange with the     *)
(* background service worker                                               *)

\* The two hook instances: useChat (one global transcript under the storage
\* key 'chatHistory') and useTabChat (one transcript per tab session)
Hooks == {"useChat", "useTabChat"}

\* What chrome.runtime.sendMessage resolves to: nothing yet, the object the
\* handler passed to sendResponse, or a rejection.  A field the object does
\* not have is "undefined".
Response(kind, success, content, error) ==
    [kind |-> kind, success |-> success, content |-> content,
     chatHistory |-> <<>>, error |-> error]

NoResponse == Response("none", "undefined", "undefined", "undefined")

Rejected == Response("rejected", "undefined", "undefined", "undefined")

\* state.currentPage?.url || '' and state.currentPage?.title || ''
NoPage == [url |-> "", title |-> "", pageContent |-> "undefined"]

\* A hook before its component is rendered: useState([]), useState(false),
\* useState<number>(0), useState<string>('')
Unmounted ==
    [mounted |-> FALSE, tabId |-> 0, sessionKey |-> "", page |-> NoPage,
     messages |-> <<>>, isProcessing |-> FALSE, newMessages |-> <<>>,
     request |-> "none", response |-> NoResponse,
     before |-> <<>>, outcome |-> "none"]

\* The assistant messages sendMessage builds
AssistantReply(content) == [role |-> "assistant", content |-> content]

ErrorReply(error) ==
    [role |-> "assistant",
     content |-> "Sorry, I encountered an error: " \o
                 (IF error # "undefined" THEN error ELSE "Unknown error")]

GenericErrorReply ==
    [role |-> "assistant",
     content |-> "Sorry, I encountered an error while processing your message. Please try again."]

\* The transcript the store holds for a hook: the value under 'chatHistory'
\* for useChat, the chatHistory of the record of (tabId, sessionKey) for
\* useTabChat (empty when there is no record)
PersistedTranscript(contexts, history, hooks, h) ==
    IF h = "useChat" THEN history
    ELSE LET key == generateContextKey(hooks[h].tabId, hooks[h].sessionKey)
         IN IF HasKey(contexts, key) THEN Lookup(contexts, key).chatHistory
            ELSE <<>>

----------------------------------------------------------------------------
(* The state machine: each manager method runs to completion in one step *)

\* What the last step was: the method and its arguments, the value it
\* returned (<<>> for null and for void) and the entries it deleted
Removed(before, after) ==
    LET gone(e) == ~HasKey(after, e.key) IN SelectSeq(before, gone)

Call(op, tabId, sessionKey, url, value, removed) ==
    [op |-> op, tabId |-> tabId, sessionKey |-> sessionKey, url |-> url,
     value |-> value, removed |-> removed]

NoCall == Call("none", 0, "undefined", "", <<>>, <<>>)

Init ==
    /\ store = <<>>
    /\ clock = 0
    /\ openTabs = TabIds
    /\ ret = NoCall
    /\ ops = 0
    /\ hook = [h \in Hooks |-> Unmounted]
    /\ storedChatHistory = <<>>
    /\ turns = 0
    /\ router = [request |-> "none", log |-> <<>>]
    /\ call = [fn |-> "none"]
    /\ templates = [stored |-> <<>>, ops |-> 0, ret |-> [op |-> "none"]]
    /\ procs = <<>>

getTabContext(tabId, url, sessionKey) ==
    /\ ops < MaxOps
    /\ ops' = ops + 1
    /\ store' = getTabContextStore(store, tabId, url, sessionKey, clock)
    /\ ret' = Call("getTabContext", tabId, sessionKey, url,
                   getTabContextValue(store, tabId, url, sessionKey, clock),
                   Removed(store, store'))
    /\ UNCHANGED <<clock, openTabs>>
    /\ UNCHANGED <<chatVars, call, otherVars>>

saveTabContext(tabId, url, title, sessionKey, chatHistory, pageContent) ==
    /\ ops < MaxOps
    /\ ops' = ops + 1
    /\ store' = saveTabContextStore(store, tabId, url, title, sessionKey,
                                    chatHistory, pageContent, clock)
    /\ ret' = Call("saveTabContext", tabId, sessionKey, url, <<>>,
                   Removed(store, store'))
    /\ UNCHANGED <<clock, openTabs>>
    /\ UNCHANGED <<chatVars, call, otherVars>>

updateChatHistory(tabId, sessionKey, chatHistory) ==
    /\ ops < MaxOps
    /\ ops' = ops + 1
    /\ store' = updateChatHistoryStore(store, tabId, sessionKey, chatHistory, clock)
    /\ ret' = Call("updateChatHistory", tabId, sessionKey, "", <<>>,
                   Removed(store, store'))
    /\ UNCHANGED <<clock, openTabs>>
    /\ UNCHANGED <<chatVars, call, otherVars>>

removeTabContext(tabId, sessionKey) ==
    /\ ops < MaxOps
    /\ ops' = ops + 1
    /\ store' = removeTabContextStore(store, tabId, sessionKey)
    /\ ret' = Call("removeTabContext", tabId, sessionKey, "", <<>>,
                   Removed(store, store'))
    /\ UNCHANGED <<clock, openTabs>>
    /\ UNCHANGED <<chatVars, call, otherVars>>

\* The periodic pass of initialize(): setInterval runs both methods every
\* CLEANUP_INTERVAL, for as long as the extension runs
cleanupContexts ==
    /\ store' = cleanupContextsStore(store, clock)
    /\ ret' = Call("cleanupContexts", 0, "undefined", "", <<>>,
                   Removed(store, store'))
    /\ UNCHANGED <<clock, openTabs, ops>>
    /\ UNCHANGED <<chatVars, call, otherVars>>

validateAndCleanupTabs ==
    /\ store' = validateAndCleanupTabsStore(store, openTabs)
    /\ ret' = Call("validateAndCleanupTabs", 0, "undefined", "", <<>>,
                   Removed(store, store'))
    /\ UNCHANGED <<clock, openTabs, ops>>
    /\ UNCHANGED <<chatVars, call, otherVars>>

\* The clock advances
Tick ==
    /\ clock < MaxClock
    /\ clock' = clock + 1
    /\ ret' = Call("tick", 0, "undefined", "", <<>>, <<>>)
    /\ UNCHANGED <<store, openTabs, ops>>
    /\ UNCHANGED <<chatVars, call, otherVars>>

\* The user closes a tab; the host never reuses a tab id
CloseTab(tabId) ==
    /\ tabId \in openTabs
    /\ openTabs' = openTabs \ {tabId}
    /\ ret' = Call("closeTab", tabId, "undefined", "", <<>>, <<>>)
    /\ UNCHANGED <<store, clock, ops>>
    /\ UNCHANGED <<chatVars, call, otherVars>>

Next ==
    \/ \E t \in TabIds, u \in Urls, s \in SessionKeys : getTabContext(t, u, s)
    \/ \E t \in TabIds, p \in Pages, s \in SessionKeys, h \in Histories :
          saveTabContext(t, p.url, p.title, s, h, p.pageContent)
    \/ \E t \in TabIds, s \in SessionKeys, h \in Histories : updateChatHistory(t, s, h)
    \/ \E t \in TabIds, s \in OptSessionKeys : removeTabContext(t, s)
    \/ cleanupContexts
    \/ validateAndCleanupTabs
    \/ Tick
    \/ \E t \in TabIds : CloseTab(t)

Spec == Init /\ [][Next]_vars

\* The manager under its periodic pass.  The pass reads only tabId and
\* lastAccessedAt of a record, so the clients' calls are made for one session
\* key, one page and one transcript per tab.
PassSessionKeys == {"a"}
PassPages == {[url |-> "u1", title |-> "t1", pageContent |-> "undefined"]}
PassHistories == {<<>>}

PassNext ==
    \/ \E t \in TabIds, p \in PassPages, s \in PassSessionKeys :
          getTabContext(t, p.url, s)
    \/ \E t \in TabIds, p \in PassPages, s \in PassSessionKeys, h \in PassHistories :
          saveTabContext(t, p.url, p.title, s, h, p.pageContent)
    \/ \E t \in TabIds, s \in PassSessionKeys, h \in PassHistories :
          updateChatHistory(t, s, h)
    \/ \E t \in TabIds, s \in PassSessionKeys : removeTabContext(t, s)
    \/ cleanupContexts
    \/ validateAndCleanupTabs
    \/ Tick
    \/ \E t \in TabIds : CloseTab(t)

\* initialize(): setInterval runs cleanupContexts and validateAndCleanupTabs
\* every CLEANUP_INTERVAL for as long as the extension runs, and time passes
FairSpec ==
    /\ Init
    /\ [][PassNext]_vars
    /\ WF_vars(cleanupContexts)
    /\ WF_vars(validateAndCleanupTabs)
    /\ WF_vars(Tick)

----------------------------------------------------------------------------
(* A chat turn.  A hook's sendMessage runs up to its await of              *)
(* chrome.runtime.sendMessage in one step; the background handles the      *)
(* request in one step; the hook resumes with the response in one step.    *)
(* The callers (popup.tsx handleSend, LeftNav) return early while          *)
(* isProcessing, so one hook has one request in flight.                    *)

mgrVars == <<store, clock, openTabs, ret, ops>>

Pending(h) == hook[h].request # "none" /\ hook[h].response.kind = "none"

Answered(h, type) == hook[h].request = type /\ hook[h].response.kind # "none"

\* useChat, useEffect on mount: loadChatHistory
useChat_mount ==
    /\ ~hook["useChat"].mounted
    /\ hook' = [hook EXCEPT !["useChat"] =
                   [@ EXCEPT !.mounted = TRUE, !.messages = storedChatHistory]]
    /\ UNCHANGED <<storedChatHistory, turns>>
    /\ UNCHANGED <<mgrVars, router, call, otherVars>>

\* useTabChat, useEffect on mount: loadTabContext sends GET_TAB_CHAT_CONTEXT
useTabChat_mount(tabId, sessionKey, page) ==
    /\ ~hook["useTabChat"].mounted
    /\ hook' = [hook EXCEPT !["useTabChat"] =
                   [@ EXCEPT !.mounted = TRUE, !.tabId = tabId,
                             !.sessionKey = sessionKey, !.page = page,
                             !.request = "GET_TAB_CHAT_CONTEXT"]]
    /\ UNCHANGED <<storedChatHistory, turns>>
    /\ UNCHANGED <<mgrVars, router, call, otherVars>>

\* loadTabContext after its await
loadTabContext_resume ==
    /\ Answered("useTabChat", "GET_TAB_CHAT_CONTEXT")
    /\ LET r == hook["useTabChat"].response
       IN hook' = [hook EXCEPT !["useTabChat"] =
                      [@ EXCEPT !.messages =
                                    IF r.kind = "reply" /\ r.success = "true"
                                    THEN r.chatHistory ELSE <<>>,
                                !.request = "none",
                                !.response = NoResponse]]
    /\ UNCHANGED <<storedChatHistory, turns>>
    /\ UNCHANGED <<mgrVars, router, call, otherVars>>

\* useChat.sendMessage up to the await of chrome.runtime.sendMessage: the
\* user message is stored under 'chatHistory' before the request is sent
useChat_sendMessage ==
    /\ turns < MaxTurns
    /\ hook["useChat"].mounted
    /\ hook["useChat"].request = "none"
    /\ LET newMessages == Append(hook["useChat"].messages, UserMsg)
       IN /\ hook' = [hook EXCEPT !["useChat"] =
                         [@ EXCEPT !.messages = newMessages,
                                   !.newMessages = newMessages,
                                   !.isProcessing = TRUE,
                                   !.request = "PROCESS_CHAT_MESSAGE",
                                   !.before = storedChatHistory,
                                   !.outcome = "none"]]
          /\ storedChatHistory' = newMessages
    /\ turns' = turns + 1
    /\ UNCHANGED <<mgrVars, router, call, otherVars>>

\* useTabChat.sendMessage up to the await of chrome.runtime.sendMessage
useTabChat_sendMessage ==
    /\ turns < MaxTurns
    /\ hook["useTabChat"].mounted
    /\ hook["useTabChat"].request = "none"
    /\ ~hook["useTabChat"].isProcessing
    /\ LET newMessages == Append(hook["useTabChat"].messages, UserMsg)
       IN hook' = [hook EXCEPT !["useTabChat"] =
                      [@ EXCEPT !.messages = newMessages,
                                !.newMessages = newMessages,
                                !.isProcessing = TRUE,
                                !.request = "PROCESS_CHAT_MESSAGE",
                                !.before = PersistedTranscript(store, storedChatHistory,
                                                               hook, "useTabChat"),
                                !.outcome = "none"]]
    /\ turns' = turns + 1
    /\ UNCHANGED storedChatHistory
    /\ UNCHANGED <<mgrVars, router, call, otherVars>>

\* BackgroundServiceWorker.handleMessage, case 'PROCESS_CHAT_MESSAGE':
\* handleProcessChatMessage reads settings, currentPage, lastSelection and
\* chatHistory, calls the model gateway and answers; generated is whether
\* llm.generateResponse returned or threw.  It writes nothing to storage.
handleProcessChatMessage(h, generated) ==
    /\ Pending(h)
    /\ hook[h].request = "PROCESS_CHAT_MESSAGE"
    /\ hook' = [hook EXCEPT ![h].response =
                   IF generated
                   THEN Response("reply", "true", AssistantMsg.content, "undefined")
                   ELSE Response("reply", "false", "undefined", "e")]
    /\ UNCHANGED <<storedChatHistory, turns>>
    /\ UNCHANGED <<mgrVars, router, call, otherVars>>

\* BackgroundServiceWorker.handleMessage, default: the switch has no case for
\* GET_TAB_CHAT_CONTEXT, SAVE_TAB_CHAT_CONTEXT or UPDATE_TAB_CHAT_HISTORY
handleMessage_default(h) ==
    /\ Pending(h)
    /\ hook[h].request # "PROCESS_CHAT_MESSAGE"
    /\ hook' = [hook EXCEPT ![h].response =
                   Response("reply", "undefined", "undefined", "Unknown message type")]
    /\ UNCHANGED <<storedChatHistory, turns>>
    /\ UNCHANGED <<mgrVars, router, call, otherVars>>

\* chrome.runtime.sendMessage rejects (no receiving end, closed channel)
sendMessage_rejected(h) ==
    /\ Pending(h)
    /\ hook' = [hook EXCEPT ![h].response = Rejected]
    /\ UNCHANGED <<storedChatHistory, turns>>
    /\ UNCHANGED <<mgrVars, router, call, otherVars>>

\* The assistant message a hook appends for a response
ReplyMessage(r) ==
    IF r.kind = "rejected" THEN GenericErrorReply
    ELSE IF r.success = "true" THEN AssistantReply(r.content)
    ELSE ErrorReply(r.error)

Outcome(r) ==
    IF r.kind = "rejected" THEN "exception"
    ELSE IF r.success = "true" THEN "success" ELSE "failure"

\* useChat.sendMessage after its await: every branch (success, else, catch)
\* appends an assistant message and stores the result under 'chatHistory'
useChat_sendMessage_resume ==
    /\ Answered("useChat", "PROCESS_CHAT_MESSAGE")
    /\ LET r == hook["useChat"].response
           updated == Append(hook["useChat"].newMessages, ReplyMessage(r))
       IN /\ hook' = [hook EXCEPT !["useChat"] =
                         [@ EXCEPT !.messages = updated,
                                   !.isProcessing = FALSE,
                                   !.request = "none",
                                   !.response = NoResponse,
                                   !.outcome = Outcome(r)]]
          /\ storedChatHistory' = updated
    /\ UNCHANGED turns
    /\ UNCHANGED <<mgrVars, router, call, otherVars>>

\* useTabChat.sendMessage after its await: the success branch and the else
\* branch only call setMessages; the catch branch also awaits
\* updateChatHistory(updated), which sends UPDATE_TAB_CHAT_HISTORY
useTabChat_sendMessage_resume ==
    /\ Answered("useTabChat", "PROCESS_CHAT_MESSAGE")
    /\ LET r == hook["useTabChat"].response
           updated == Append(hook["useTabChat"].newMessages, ReplyMessage(r))
       IN hook' = [hook EXCEPT !["useTabChat"] =
                      IF r.kind = "rejected"
                      THEN [@ EXCEPT !.messages = updated,
                                     !.request = "UPDATE_TAB_CHAT_HISTORY",
                                     !.response = NoResponse]
                      ELSE [@ EXCEPT !.messages = updated,
                                     !.isProcessing = FALSE,
                                     !.request = "none",
                                     !.response = NoResponse,
                                     !.outcome = Outcome(r)]]
    /\ UNCHANGED <<storedChatHistory, turns>>
    /\ UNCHANGED <<mgrVars, router, call, otherVars>>

\* useTabChat.updateChatHistory after its await (a rejection is caught and
\* logged), then the finally block of sendMessage
useTabChat_updateChatHistory_resume ==
    /\ Answered("useTabChat", "UPDATE_TAB_CHAT_HISTORY")
    /\ hook' = [hook EXCEPT !["useTabChat"] =
                   [@ EXCEPT !.isProcessing = FALSE,
                             !.request = "none",
                             !.response = NoResponse,
                             !.outcome = "exception"]]
    /\ UNCHANGED <<storedChatHistory, turns>>
    /\ UNCHANGED <<mgrVars, router, call, otherVars>>

\* A record of the popup's own tab session is written through the manager
SavePopupSession(chatHistory_) ==
    /\ hook["useTabChat"].mounted
    /\ saveTabContext(hook["useTabChat"].tabId, hook["useTabChat"].page.url,
                      hook["useTabChat"].page.title, hook["useTabChat"].sessionKey,
                      chatHistory_, hook["useTabChat"].page.pageContent)

ChatNext ==
    \/ useChat_mount
    \/ \E t \in TabIds, s \in SessionKeys, p \in Pages : useTabChat_mount(t, s, p)
    \/ loadTabContext_resume
    \/ useChat_sendMessage
    \/ useTabChat_sendMessage
    \/ \E h \in Hooks, generated \in BOOLEAN : handleProcessChatMessage(h, generated)
    \/ \E h \in Hooks : handleMessage_default(h)
    \/ \E h \in Hooks : sendMessage_rejected(h)
    \/ useChat_sendMessage_resume
    \/ useTabChat_sendMessage_resume
    \/ useTabChat_updateChatHistory_resume
    \/ \E h \in Histories : SavePopupSession(h)

ChatSpec == Init /\ [][ChatNext]_vars

----------------------------------------------------------------------------
(* The background's message listener: every request type, every path       *)

\* GET_TAB_CHAT_CONTEXT is a type useTabChat sends and the switch does not
\* name; it stands for every type that reaches the default case
MessageTypes ==
    {"PING", "EXTRACT_PAGE_CONTENT", "GET_EXTENSION_STATE", "UPDATE_SETTINGS",
     "EXPORT_DATA", "IMPORT_DATA", "PROCESS_CHAT_MESSAGE", "GET_TAB_CHAT_CONTEXT"}

\* The ways a handler can run: its calls succeed ("ok") or one of them throws
\* ("throws"); handlePageExtraction also finds no tab id, or falls back to
\* chrome.scripting.executeScript, which succeeds or fails
Paths(type) ==
    IF type = "EXTRACT_PAGE_CONTENT"
    THEN {"ok", "noTab", "fallbackOk", "fallbackFails", "throws"}
    ELSE IF type \in {"PING", "GET_TAB_CHAT_CONTEXT"} THEN {"ok"}
    ELSE {"ok", "throws"}

\* The object passed to sendResponse; a field the object does not have is
\* "undefined"
Reply(success, data, error, pong) ==
    [success |-> success, data |-> data, error |-> error, pong |-> pong]

SuccessWithData == Reply("true", "data", "undefined", "undefined")

SuccessOnly == Reply("true", "undefined", "undefined", "undefined")

ErrorOnly(error) == Reply("undefined", "undefined", error, "undefined")

\* handleMessage and the handler it dispatches to: the sendResponse calls made
\* for a request of the given type on the given path, in order
handleMessageReplies(type, path) ==
    CASE type = "PING" -> <<Reply("undefined", "undefined", "undefined", "true")>>
      [] type = "EXTRACT_PAGE_CONTENT" ->
            CASE path = "noTab" -> <<ErrorOnly("No tab ID found")>>
              [] path = "ok" -> <<SuccessWithData>>
              [] path = "fallbackOk" -> <<SuccessWithData>>
              [] path = "fallbackFails" -> <<ErrorOnly("Failed to extract page content")>>
              [] OTHER -> <<ErrorOnly("Page extraction failed")>>
      [] type = "GET_EXTENSION_STATE" ->
            IF path = "ok" THEN <<SuccessWithData>>
            ELSE <<ErrorOnly("Failed to get extension state")>>
      [] type = "UPDATE_SETTINGS" ->
            IF path = "ok" THEN <<SuccessOnly>>
            ELSE <<ErrorOnly("Failed to update settings")>>
      [] type = "EXPORT_DATA" ->
            IF path = "ok" THEN <<SuccessOnly>>
            ELSE <<ErrorOnly("Failed to export data")>>
      [] type = "IMPORT_DATA" ->
            IF path = "ok" THEN <<SuccessOnly>>
            ELSE <<ErrorOnly("Failed to import data")>>
      [] type = "PROCESS_CHAT_MESSAGE" ->
            IF path = "ok" THEN <<SuccessWithData>>
            ELSE <<Reply("false", "undefined", "e", "undefined")>>
      [] OTHER -> <<ErrorOnly("Unknown message type")>>

\* chrome.runtime.onMessage delivers a request to the listener
onMessage(type) ==
    /\ router.request = "none"
    /\ Len(router.log) < MaxRequests
    /\ router' = [router EXCEPT !.request = type]
    /\ UNCHANGED <<mgrVars, hook, storedChatHistory, turns, call, otherVars>>

\* handleMessage runs to its end for the delivered request
handleMessage(path) ==
    /\ router.request # "none"
    /\ path \in Paths(router.request)
    /\ router' = [router EXCEPT
                      !.request = "none",
                      !.log = Append(@, [type |-> router.request, path |-> path,
                                         replies |-> handleMessageReplies(
                                                         router.request, path)])]
    /\ UNCHANGED <<mgrVars, hook, storedChatHistory, turns, call, otherVars>>

AllPaths == {"ok", "noTab", "fallbackOk", "fallbackFails", "throws"}

RouterNext ==
    \/ \E type \in MessageTypes : onMessage(type)
    \/ \E path \in AllPaths : handleMessage(path)

RouterSpec == Init /\ [][RouterNext]_vars

----------------------------------------------------------------------------
(* Strings.  A JavaScript string is the sequence of its characters, each a *)
(* one-character string.                                                   *)

IsSpace(c) == c \in {" ", "\n"}

LowerChar(c) == IF c = "A" THEN "a" ELSE IF c = "B" THEN "b" ELSE c

\* String.prototype.toLowerCase
toLowerCase(str) == [i \in DOMAIN str |-> LowerChar(str[i])]

\* String.prototype.includes
includes(str, search) ==
    \E i \in 0..(Len(str) - Len(search)) :
        SubSeq(str, i + 1, i + Len(search)) = search

\* String.prototype.split(/\s+/): the pieces between the maximal runs of
\* white space; a leading or trailing run yields an empty piece, and the
\* empty string yields one empty piece
RECURSIVE SplitFrom(_, _, _)
SplitFrom(str, i, piece) ==
    IF i > Len(str) THEN <<piece>>
    ELSE IF IsSpace(str[i])
         THEN IF i > 1 /\ IsSpace(str[i - 1])
              THEN SplitFrom(str, i + 1, piece)
              ELSE <<piece>> \o SplitFrom(str, i + 1, <<>>)
         ELSE SplitFrom(str, i + 1, Append(piece, str[i]))

split(str) == SplitFrom(str, 1, <<>>)

\* String.prototype.trim
RECURSIVE trimStart(_)
trimStart(str) ==
    IF str # <<>> /\ IsSpace(Head(str)) THEN trimStart(Tail(str)) ELSE str

RECURSIVE trimEnd(_)
trimEnd(str) ==
    IF str # <<>> /\ IsSpace(str[Len(str)])
    THEN trimEnd(SubSeq(str, 1, Len(str) - 1)) ELSE str

trim(str) == trimEnd(trimStart(str))

\* Array.prototype.join(sep) of an array of strings
RECURSIVE join(_, _)
join(strs, sep) ==
    IF strs = <<>> THEN <<>>
    ELSE IF Len(strs) = 1 THEN strs[1]
    ELSE strs[1] \o sep \o join(Tail(strs), sep)

(* Numbers.  A score is a non-negative rational [n, d] with d > 0. *)

Rat(n, d) == [n |-> n, d |-> d]

RatLeq(a, b) == a.n * b.d <= b.n * a.d

RatEq(a, b) == a.n * b.d = b.n * a.d

RatAdd(a, b) == Rat(a.n * b.d + b.n * a.d, a.d * b.d)

\* Math.max
RatMax(a, b) == IF RatLeq(a, b) THEN b ELSE a

IntMax(a, b) == IF a >= b THEN a ELSE b

IntMin(a, b) == IF a <= b THEN a ELSE b

----------------------------------------------------------------------------
(* RAGSystem: relevance scoring, retrieval and context assembly *)

SIMILARITY_THRESHOLD == Rat(7, 10)

\* The inner loop of computeRelevanceScore: the best ratio over chunkWords
RECURSIVE wordScoreOver(_, _, _)
wordScoreOver(queryWord, chunkWords, wordScore) ==
    IF chunkWords = <<>> THEN wordScore
    ELSE LET chunkWord == Head(chunkWords)
             next == IF includes(chunkWord, queryWord) \/ includes(queryWord, chunkWord)
                     THEN RatMax(wordScore,
                                 Rat(Len(queryWord),
                                     IntMax(Len(queryWord), Len(chunkWord))))
                     ELSE wordScore
         IN wordScoreOver(queryWord, Tail(chunkWords), next)

\* The outer loop of computeRelevanceScore
RECURSIVE scoreOver(_, _, _)
scoreOver(queryWords, chunkWords, score) ==
    IF queryWords = <<>> THEN score
    ELSE LET queryWord == Head(queryWords)
         IN IF Len(queryWord) < 3
            THEN scoreOver(Tail(queryWords), chunkWords, score)
            ELSE scoreOver(Tail(queryWords), chunkWords,
                           RatAdd(score,
                                  wordScoreOver(queryWord, chunkWords, Rat(0, 1))))

\* (mutant: the score is normalized by the number of words of length >= 3)
computeRelevanceScore_FilteredCount(query, chunk) ==
    LET queryWords == split(toLowerCase(query))
        chunkWords == split(toLowerCase(chunk.chunkText))
        score == scoreOver(queryWords, chunkWords, Rat(0, 1))
        long(w) == Len(w) >= 3
        totalWords == Len(SelectSeq(queryWords, long))
    IN  IF totalWords > 0 THEN Rat(score.n, score.d * totalWords) ELSE Rat(0, 1)

computeRelevanceScore(query, chunk) ==
    LET queryWords == split(toLowerCase(query))
        chunkWords == split(toLowerCase(chunk.chunkText))
        score == scoreOver(queryWords, chunkWords, Rat(0, 1))
        totalWords == Len(queryWords)
    IN  IF totalWords > 0 THEN Rat(score.n, score.d * totalWords) ELSE Rat(0, 1)

\* scoredChunks.sort((a, b) => b.score - a.score): descending, stable
RECURSIVE InsertByScore(_, _)
InsertByScore(sorted, item) ==
    IF sorted = <<>> THEN <<item>>
    ELSE IF RatLeq(item.score, Head(sorted).score)
         THEN <<Head(sorted)>> \o InsertByScore(Tail(sorted), item)
         ELSE <<item>> \o sorted

RECURSIVE SortByScore(_)
SortByScore(items) ==
    IF items = <<>> THEN <<>>
    ELSE InsertByScore(SortByScore(SubSeq(items, 1, Len(items) - 1)),
                       items[Len(items)])

\* (mutant: the scored chunks are cut and filtered without being sorted)
searchRelevantChunks_NoSort(query, chunks, topK) ==
    IF Len(chunks) = 0 THEN <<>>
    ELSE LET scoredChunks ==
                 [i \in DOMAIN chunks |->
                     [chunk |-> chunks[i],
                      score |-> computeRelevanceScore(query, chunks[i])]]
             relevant(item) == RatLeq(SIMILARITY_THRESHOLD, item.score)
             kept == SelectSeq(Slice(scoredChunks, topK), relevant)
         IN [i \in DOMAIN kept |-> kept[i].chunk]

searchRelevantChunks(query, chunks, topK) ==
    IF Len(chunks) = 0 THEN <<>>
    ELSE LET scoredChunks ==
                 SortByScore([i \in DOMAIN chunks |->
                                 [chunk |-> chunks[i],
                                  score |-> computeRelevanceScore(query, chunks[i])]])
             relevant(item) == RatLeq(SIMILARITY_THRESHOLD, item.score)
             kept == SelectSeq(Slice(scoredChunks, topK), relevant)
         IN [i \in DOMAIN kept |-> kept[i].chunk]

\* `[Source: ${chunk.sourceUrl}]\n${chunk.chunkText}\n\n`
SourceBlock(chunk) ==
    <<"[", "S", "o", "u", "r", "c", "e", ":", " ">> \o chunk.sourceUrl
        \o <<"]", "\n">> \o chunk.chunkText \o <<"\n", "\n">>

\* (mutant: continue instead of break, a later chunk that fits is still added)
RECURSIVE contextTextOver_Skip(_, _)
contextTextOver_Skip(chunks, contextText) ==
    IF chunks = <<>> THEN contextText
    ELSE LET chunkText == SourceBlock(Head(chunks))
         IN IF Len(contextText) + Len(chunkText) > MAX_CONTEXT_LENGTH
            THEN contextTextOver_Skip(Tail(chunks), contextText)
            ELSE contextTextOver_Skip(Tail(chunks), contextText \o chunkText)

\* The loop of buildContextText
RECURSIVE contextTextOver(_, _)
contextTextOver(chunks, contextText) ==
    IF chunks = <<>> THEN contextText
    ELSE LET chunkText == SourceBlock(Head(chunks))
         IN IF Len(contextText) + Len(chunkText) > MAX_CONTEXT_LENGTH
            THEN contextText
            ELSE contextTextOver(Tail(chunks), contextText \o chunkText)

buildContextText(chunks) ==
    IF Len(chunks) = 0 THEN <<>> ELSE trim(contextTextOver(chunks, <<>>))

(* Inputs of the RAG functions *)

Words == {<<>>, <<"a", "b">>, <<"a", "b", "c">>, <<"A", "b", "c", "d">>,
          <<"x", "y", "z">>}

\* Up to MaxWords words joined by single spaces; an empty word gives a
\* leading, trailing or doubled space
Texts ==
    {join(ws, <<" ">>) : ws \in UNION {[1..n -> Words] : n \in 1..MaxWords}}

TextChunk(sourceUrl, chunkText) == [sourceUrl |-> sourceUrl, chunkText |-> chunkText]

RagChunks ==
    {TextChunk(<<"u">>, <<"A", "b", "c", "d">>),
     TextChunk(<<"v">>, <<"a", "b", "c">>),
     TextChunk(<<"w">>, <<"a", "b", "c", " ", "x", "y", "z">>),
     TextChunk(<<"t">>, <<"x", "y", "z", " ">>)}

ChunkLists == UNION {[1..n -> RagChunks] : n \in 0..MaxChunks}

RagQueries ==
    {<<"a", "b", "c">>, <<"a", "b", "c", " ", "x", "y", "z">>, <<"a", "b">>,
     <<"x", "y", "z">>, <<"a", "b", "c", " ", "a", "b">>}

\* One library call per behaviour: the functions are pure, so a call does not
\* depend on the calls before it
computeRelevanceScore_call(query, chunk) ==
    /\ call.fn = "none"
    /\ call' = [fn |-> "computeRelevanceScore", query |-> query, chunk |-> chunk,
                result |-> computeRelevanceScore(query, chunk)]
    /\ UNCHANGED <<mgrVars, hook, storedChatHistory, turns, router, otherVars>>

searchRelevantChunks_call(query, chunks, topK) ==
    /\ call.fn = "none"
    /\ call' = [fn |-> "searchRelevantChunks", query |-> query, chunks |-> chunks,
                topK |-> topK,
                result |-> searchRelevantChunks(query, chunks, topK)]
    /\ UNCHANGED <<mgrVars, hook, storedChatHistory, turns, router, otherVars>>

buildContextText_call(chunks) ==
    /\ call.fn = "none"
    /\ call' = [fn |-> "buildContextText", chunks |-> chunks,
                result |-> buildContextText(chunks)]
    /\ UNCHANGED <<mgrVars, hook, storedChatHistory, turns, router, otherVars>>

RagNext ==
    \/ /\ call.fn = "none"
       /\ \E query \in Texts, chunkText \in Texts :
             computeRelevanceScore_call(query, TextChunk(<<"u">>, chunkText))
    \/ /\ call.fn = "none"
       /\ \E query \in RagQueries, chunks \in ChunkLists, topK \in 1..MaxTopK :
             searchRelevantChunks_call(query, chunks, topK)
    \/ /\ call.fn = "none"
       /\ \E chunks \in ChunkLists : buildContextText_call(chunks)

RagSpec == Init /\ [][RagNext]_vars

----------------------------------------------------------------------------
(* Chunking: EmbeddingsManager.chunkText and PageExtractor.chunkContent.   *)
(* Indices are JavaScript's, counted from 0.                               *)

SetMax(S) == CHOOSE x \in S : \A y \in S : y <= x

\* String.prototype.lastIndexOf(ch, fromIndex): -1 when ch does not occur at
\* or before fromIndex
lastIndexOf(str, ch, fromIndex) ==
    LET found == {i \in 0..IntMin(fromIndex, Len(str) - 1) : str[i + 1] = ch}
    IN  IF found = {} THEN -1 ELSE SetMax(found)

\* (mutant: the character at index end is included)
substring_Inclusive(str, start, end) ==
    SubSeq(str, start + 1, IntMin(end + 1, Len(str)))

\* String.prototype.substring(start, end): the arguments are clamped to the
\* string and swapped when start > end
substring(str, start, end) ==
    LET a == IntMax(0, IntMin(start, Len(str)))
        b == IntMax(0, IntMin(end, Len(str)))
    IN  SubSeq(str, IntMin(a, b) + 1, IntMax(a, b))

\* Math.max(lastPeriod, lastExclamation, lastQuestion)
LastBreak(str, fromIndex) ==
    SetMax({lastIndexOf(str, ".", fromIndex), lastIndexOf(str, "!", fromIndex),
            lastIndexOf(str, "?", fromIndex)})

\* (mutant: the cut is moved to the last terminator wherever it lies)
chunkTextIteration_BreakAnywhere(text, maxChunkSize, start) ==
    LET windowEnd == IntMin(start + maxChunkSize, Len(text))
        lastBreak == LastBreak(text, windowEnd)
        end == IF windowEnd < Len(text) /\ lastBreak >= 0
               THEN lastBreak + 1 ELSE windowEnd
    IN  [start |-> end, chunk |-> trim(substring(text, start, end))]

\* One iteration of the while loop of EmbeddingsManager.chunkText: the
\* offset the next iteration starts at and the trimmed chunk
chunkTextIteration(text, maxChunkSize, start) ==
    LET windowEnd == IntMin(start + maxChunkSize, Len(text))
        lastBreak == LastBreak(text, windowEnd)
        end == IF windowEnd < Len(text)
                  /\ 10 * lastBreak > 10 * start + 7 * maxChunkSize
               THEN lastBreak + 1 ELSE windowEnd
    IN  [start |-> end, chunk |-> trim(substring(text, start, end))]

\* The while loop of EmbeddingsManager.chunkText
RECURSIVE chunkTextFrom(_, _, _, _)
chunkTextFrom(text, maxChunkSize, start, chunks) ==
    IF ~(start < Len(text)) THEN chunks
    ELSE LET iteration == chunkTextIteration(text, maxChunkSize, start)
         IN chunkTextFrom(text, maxChunkSize, iteration.start,
                          IF iteration.chunk # <<>>
                          THEN Append(chunks, iteration.chunk) ELSE chunks)

chunkText(text, maxChunkSize) == chunkTextFrom(text, maxChunkSize, 0, <<>>)

\* One iteration of the while loop of PageExtractor.chunkContent: lastBreak
\* is an index into the window, start an index into the content
chunkContentIteration(content, start) ==
    LET end == IntMin(start + CHUNK_SIZE, Len(content))
        window == substring(content, start, end)
        lastBreak == LastBreak(window, Len(window))
        breaks == end < Len(content)
                     /\ 10 * lastBreak > 10 * start + 7 * CHUNK_SIZE
        chunk == IF breaks THEN substring(content, start, lastBreak + 1)
                 ELSE window
    IN  [start |-> IF breaks THEN lastBreak + 1 ELSE end, chunk |-> trim(chunk)]

\* The while loop of PageExtractor.chunkContent
RECURSIVE chunkContentFrom(_, _, _)
chunkContentFrom(content, start, chunks) ==
    IF ~(start < Len(content)) THEN chunks
    ELSE LET iteration == chunkContentIteration(content, start)
         IN chunkContentFrom(content, iteration.start,
                             IF iteration.chunk # <<>>
                             THEN Append(chunks, iteration.chunk) ELSE chunks)

chunkContent(content) == chunkContentFrom(content, 0, <<>>)

(* Inputs of the chunkers *)

TextsOfLen(n) == [1..n -> {"x", ".", " "}]

LongTexts == [1..MaxLongLen -> {"x", "."}]

chunkText_call(text) ==
    /\ call.fn = "none"
    /\ call' = [fn |-> "chunkText", text |-> text,
                result |-> chunkText(text, CHUNK_SIZE)]
    /\ UNCHANGED <<mgrVars, hook, storedChatHistory, turns, router, otherVars>>

chunkContent_call(content) ==
    /\ call.fn = "none"
    /\ call' = [fn |-> "chunkContent", text |-> content,
                result |-> chunkContent(content)]
    /\ UNCHANGED <<mgrVars, hook, storedChatHistory, turns, router, otherVars>>

ChunkerNext ==
    \/ /\ call.fn = "none"
       /\ \E n \in 0..MaxTextLen :
             \E text \in TextsOfLen(n) : chunkText_call(text)
    \/ /\ call.fn = "none"
       /\ \E text \in LongTexts : chunkText_call(text)
    \/ /\ call.fn = "none"
       /\ \E n \in 0..MaxTextLen :
             \E content \in TextsOfLen(n) : chunkContent_call(content)
    \/ /\ call.fn = "none"
       /\ \E content \in LongTexts : chunkContent_call(content)

ChunkerSpec == Init /\ [][ChunkerNext]_vars

(* The two loops iteration by iteration: call.start is the scan offset,     *)
(* call.window the window the last iteration looked at                      *)

NoWindow == [start |-> 0, end |-> 0]

chunker_enter(fn, text) ==
    /\ call.fn = "none"
    /\ call' = [fn |-> fn, text |-> text, start |-> 0, chunks |-> <<>>,
                window |-> NoWindow, iterations |-> 0, pc |-> "while"]
    /\ UNCHANGED <<mgrVars, hook, storedChatHistory, turns, router, otherVars>>

chunkText_iterate ==
    /\ call.fn = "chunkText.while" /\ call.pc = "while"
    /\ call.start < Len(call.text)
    /\ LET iteration == chunkTextIteration(call.text, CHUNK_SIZE, call.start)
       IN  call' = [call EXCEPT
                      !.start = iteration.start,
                      !.iterations = call.iterations + 1,
                      !.window = [start |-> call.start,
                                  end |-> IntMin(call.start + CHUNK_SIZE,
                                                 Len(call.text))],
                      !.chunks = IF iteration.chunk # <<>>
                                 THEN Append(call.chunks, iteration.chunk)
                                 ELSE call.chunks]
    /\ UNCHANGED <<mgrVars, hook, storedChatHistory, turns, router, otherVars>>

chunkContent_iterate ==
    /\ call.fn = "chunkContent.while" /\ call.pc = "while"
    /\ call.start < Len(call.text)
    /\ LET iteration == chunkContentIteration(call.text, call.start)
       IN  call' = [call EXCEPT
                      !.start = iteration.start,
                      !.iterations = call.iterations + 1,
                      !.window = [start |-> call.start,
                                  end |-> IntMin(call.start + CHUNK_SIZE,
                                                 Len(call.text))],
                      !.chunks = IF iteration.chunk # <<>>
                                 THEN Append(call.chunks, iteration.chunk)
                                 ELSE call.chunks]
    /\ UNCHANGED <<mgrVars, hook, storedChatHistory, turns, router, otherVars>>

\* The loop condition fails and the chunks are returned
chunker_return ==
    /\ call.fn \in {"chunkText.while", "chunkContent.while"}
    /\ call.pc = "while"
    /\ ~(call.start < Len(call.text))
    /\ call' = [call EXCEPT !.pc = "returned"]
    /\ UNCHANGED <<mgrVars, hook, storedChatHistory, turns, router, otherVars>>

ChunkLoopNext ==
    \/ /\ call.fn = "none"
       /\ \E fn \in {"chunkText.while", "chunkContent.while"} :
             \/ \E n \in 0..MaxTextLen :
                   \E text \in TextsOfLen(n) : chunker_enter(fn, text)
             \/ \E text \in LongTexts : chunker_enter(fn, text)
    \/ chunkText_iterate
    \/ chunkContent_iterate
    \/ chunker_return

ChunkLoopSpec == Init /\ [][ChunkLoopNext]_vars

----------------------------------------------------------------------------
(* Model configuration: getModelConfig and buildApiRequestBody.            *)
(* JavaScript values: numbers are rationals, undefined, NaN and function   *)
(* objects are tagged records.                                             *)

Undefined == [type |-> "undefined"]

NaN == [type |-> "NaN"]

\* A function object such as Object.prototype.constructor: it is truthy and
\* has none of ModelConfig's properties
FunctionObject == [type |-> "function"]

MODEL_CONFIGS ==
    [m \in {"gpt-4o-mini", "gpt-3.5-turbo", "gpt-5-mini", "o4-mini", "local-wasm"} |->
        CASE m = "gpt-4o-mini" ->
                [apiModelName |-> "gpt-4o-mini", useMaxCompletionTokens |-> FALSE,
                 defaultTemperature |-> Rat(7, 10),
                 maxTokensSupported |-> Rat(128000, 1),
                 inputCostPer1K |-> Rat(15, 100000),
                 outputCostPer1K |-> Rat(6, 10000),
                 supportsSystemMessages |-> TRUE]
          [] m = "gpt-3.5-turbo" ->
                [apiModelName |-> "gpt-3.5-turbo", useMaxCompletionTokens |-> FALSE,
                 defaultTemperature |-> Rat(7, 10),
                 maxTokensSupported |-> Rat(16385, 1),
                 inputCostPer1K |-> Rat(15, 10000),
                 outputCostPer1K |-> Rat(2, 1000),
                 supportsSystemMessages |-> TRUE]
          [] m = "gpt-5-mini" ->
                [apiModelName |-> "gpt-5-mini", useMaxCompletionTokens |-> TRUE,
                 defaultTemperature |-> Rat(1, 1),
                 maxTokensSupported |-> Rat(128000, 1),
                 inputCostPer1K |-> Rat(1, 10000),
                 outputCostPer1K |-> Rat(4, 10000),
                 supportsSystemMessages |-> TRUE]
          [] m = "o4-mini" ->
                [apiModelName |-> "o4-mini", useMaxCompletionTokens |-> TRUE,
                 defaultTemperature |-> Rat(1, 1),
                 maxTokensSupported |-> Rat(65536, 1),
                 inputCostPer1K |-> Rat(2, 10000),
                 outputCostPer1K |-> Rat(8, 10000),
                 supportsSystemMessages |-> TRUE]
          [] m = "local-wasm" ->
                [apiModelName |-> "local-wasm", useMaxCompletionTokens |-> FALSE,
                 defaultTemperature |-> Rat(7, 10),
                 maxTokensSupported |-> Rat(4096, 1),
                 inputCostPer1K |-> Rat(0, 1),
                 outputCostPer1K |-> Rat(0, 1),
                 supportsSystemMessages |-> TRUE]]

\* Property names every object literal inherits from Object.prototype
ObjectPrototype == {"constructor", "toString", "valueOf", "hasOwnProperty"}

\* obj[key] on an object literal: an own property, else an inherited one,
\* else undefined
PropertyOf(obj, key) ==
    IF key \in DOMAIN obj THEN obj[key]
    ELSE IF key \in ObjectPrototype THEN FunctionObject
    ELSE Undefined

\* config.field: undefined when the object has no such property
Field(config, field) ==
    IF field \in DOMAIN config THEN config[field] ELSE Undefined

getModelConfig(modelName) ==
    LET config == PropertyOf(MODEL_CONFIGS, modelName)
    IN  IF config = Undefined THEN MODEL_CONFIGS["gpt-4o-mini"] ELSE config

\* Math.min of two values: NaN when one of them is not a number
MathMin(a, b) ==
    IF a \in {NaN, Undefined} \/ b \in {NaN, Undefined} THEN NaN
    ELSE IF RatLeq(a, b) THEN a ELSE b

buildApiRequestBody(modelName, messages, maxTokens, temperature) ==
    LET config == getModelConfig(modelName)
        base == [model |-> Field(config, "apiModelName"),
                 messages |-> messages,
                 temperature |-> IF temperature # Undefined THEN temperature
                                 ELSE Field(config, "defaultTemperature")]
        limit == MathMin(maxTokens, Field(config, "maxTokensSupported"))
        body == IF "useMaxCompletionTokens" \in DOMAIN config
                   /\ config.useMaxCompletionTokens
                THEN base @@ ("max_completion_tokens" :> limit)
                ELSE base @@ ("max_tokens" :> limit)
    IN  IF "additionalParams" \in DOMAIN config
        THEN config.additionalParams @@ body
        ELSE body

(* Inputs of buildApiRequestBody *)

ModelNames == DOMAIN MODEL_CONFIGS \cup {"unknown-model", "constructor"}

TokenLimits ==
    {Rat(n, 1) : n \in {1, 4096, 4097, 16385, 16386, 65536, 65537, 128000, 128001}}

Temperatures == {Undefined, Rat(0, 1), Rat(1, 2)}

ApiMessages == {<<[role |-> "user", content |-> "hi"]>>}

buildApiRequestBody_call(modelName, messages, maxTokens, temperature) ==
    /\ call.fn = "none"
    /\ call' = [fn |-> "buildApiRequestBody", modelName |-> modelName,
                maxTokens |-> maxTokens, temperature |-> temperature,
                result |-> buildApiRequestBody(modelName, messages, maxTokens,
                                               temperature)]
    /\ UNCHANGED <<mgrVars, hook, storedChatHistory, turns, router, otherVars>>

ModelConfigNext ==
    /\ call.fn = "none"
    /\ \E modelName \in ModelNames, messages \in ApiMessages,
          maxTokens \in TokenLimits, temperature \in Temperatures :
          buildApiRequestBody_call(modelName, messages, maxTokens, temperature)

ModelConfigSpec == Init /\ [][ModelConfigNext]_vars

----------------------------------------------------------------------------
(* LLMClient.generateResponse: one call of a client constructed with a     *)
(* provider and an API key. call.pc is the await the call is suspended at, *)
(* call.requests the fetch calls it has made.                              *)

Providers == {"openai", "huggingface", "local-wasm"}

ApiKeys == {"undefined", "", "sk"}

ModelArgs == {"undefined", "gpt-4o-mini", "o4-mini"}

HttpStatuses == {200, 204, 401, 429, 500}

BodyTexts == {"", "quota"}

\* new Error(message): the message's template and the values interpolated
ErrorOf(template, status, text) ==
    [kind |-> "error", template |-> template, status |-> status, text |-> text]

LLMResponse(content, model) == [kind |-> "response", content |-> content, model |-> model]

PendingOutcome == [kind |-> "pending"]

NoRes == [status |-> 0, body |-> "", readable |-> FALSE]

\* (mutant: every status counts as a success)
ok_AnyStatus(res) == TRUE

\* Response.ok
ok(res) == res.status \in 200..299

ChatMessages(systemPrompt, userPrompt) ==
    <<[role |-> "system", content |-> systemPrompt],
      [role |-> "user", content |-> userPrompt]>>

MaxTokensDefault == Rat(1000, 1)

\* generateResponse up to its first await: the provider dispatch, and for
\* openai the key test and the fetch call of generateOpenAIResponse
generateResponse(provider, apiKey, model) ==
    /\ call.fn = "none"
    /\ LET started == [fn |-> "generateResponse", provider |-> provider,
                       apiKey |-> apiKey, model |-> model, pc |-> "done",
                       requests |-> <<>>, res |-> NoRes,
                       outcome |-> PendingOutcome]
           modelName == IF Truthy(model) THEN model ELSE "gpt-4o-mini"
           body == buildApiRequestBody(modelName, ChatMessages("s", "u"),
                                       MaxTokensDefault, Undefined)
       IN  call' =
             IF provider = "openai"
             THEN IF ~Truthy(apiKey)
                  THEN [started EXCEPT
                          !.outcome = ErrorOf("OpenAI API key not set", 0, "")]
                  ELSE [started EXCEPT
                          !.pc = "fetch",
                          !.requests = <<[method |-> "POST",
                                          authorization |-> apiKey,
                                          body |-> body]>>]
             ELSE IF provider = "local-wasm"
             THEN [started EXCEPT
                     !.outcome = LLMResponse("[Local Model Response]", "local-wasm")]
             ELSE [started EXCEPT
                     !.outcome = ErrorOf("Unsupported LLM provider", 0, provider)]
    /\ UNCHANGED <<mgrVars, hook, storedChatHistory, turns, router, otherVars>>

\* The fetch promise resolves with a response; its body may or may not be
\* readable
fetch_resolves(status, bodyText, readable) ==
    /\ call.fn = "generateResponse" /\ call.pc = "fetch"
    /\ LET res == [status |-> status, body |-> bodyText, readable |-> readable]
       IN  call' = [call EXCEPT !.res = res,
                                !.pc = IF ~ok(res) THEN "text" ELSE "json"]
    /\ UNCHANGED <<mgrVars, hook, storedChatHistory, turns, router, otherVars>>

\* The fetch promise rejects (network failure): the rejection propagates
fetch_rejects ==
    /\ call.fn = "generateResponse" /\ call.pc = "fetch"
    /\ call' = [call EXCEPT !.pc = "done",
                            !.outcome = ErrorOf("Failed to fetch", 0, "")]
    /\ UNCHANGED <<mgrVars, hook, storedChatHistory, turns, router, otherVars>>

\* res.text().catch(() => '') settles and the HTTP error is thrown
text_settles ==
    /\ call.fn = "generateResponse" /\ call.pc = "text"
    /\ LET errText == IF call.res.readable THEN call.res.body ELSE ""
       IN  call' = [call EXCEPT
                      !.pc = "done",
                      !.outcome = ErrorOf("OpenAI HTTP", call.res.status, errText)]
    /\ UNCHANGED <<mgrVars, hook, storedChatHistory, turns, router, otherVars>>

\* res.json() settles: the response object is built, or the parse error
\* propagates
json_settles ==
    /\ call.fn = "generateResponse" /\ call.pc = "json"
    /\ call' = [call EXCEPT
                  !.pc = "done",
                  !.outcome = IF call.res.readable
                              THEN LLMResponse(call.res.body, "json.model")
                              ELSE ErrorOf("Unexpected end of JSON input", 0, "")]
    /\ UNCHANGED <<mgrVars, hook, storedChatHistory, turns, router, otherVars>>

LlmNext ==
    \/ \E provider \in Providers, apiKey \in ApiKeys, model \in ModelArgs :
          generateResponse(provider, apiKey, model)
    \/ \E status \in HttpStatuses, bodyText \in BodyTexts, readable \in BOOLEAN :
          fetch_resolves(status, bodyText, readable)
    \/ fetch_rejects
    \/ text_settles
    \/ json_settles

LlmSpec == Init /\ [][LlmNext]_vars

----------------------------------------------------------------------------
(* EmbeddingsManager: construction, the dynamic import of the cloud client *)
(* and one computeEmbeddings call. call.pc is the await the call is        *)
(* suspended at.                                                           *)

\* new Array(384)
EMBEDDING_DIMENSION == 384

\* String.prototype.charCodeAt for the characters of the inputs
charCodeAt(c) ==
    CASE c = " " -> 32
      [] c = "a" -> 97
      [] c = "b" -> 98
      [] c = "z" -> 122

RECURSIVE frequenciesOver(_, _)
frequenciesOver(text, embedding) ==
    IF text = <<>> THEN embedding
    ELSE LET index == charCodeAt(Head(text)) % EMBEDDING_DIMENSION
         IN frequenciesOver(Tail(text),
                            [embedding EXCEPT ![index] = embedding[index] + 1])

\* embedding.reduce((sum, val) => sum + val * val, 0), summed over the
\* buckets that are not 0
RECURSIVE SumOfSquares(_, _)
SumOfSquares(embedding, buckets) ==
    IF buckets = {} THEN 0
    ELSE LET i == CHOOSE b \in buckets : TRUE
         IN embedding[i] * embedding[i] + SumOfSquares(embedding, buckets \ {i})

\* computeSimpleEmbedding: the entries of the result are
\* frequencies[i] / sqrt(squaredMagnitude); the division is left undone when
\* the magnitude is 0
computeSimpleEmbedding(text) ==
    LET frequencies == frequenciesOver(text, [i \in 0..(EMBEDDING_DIMENSION - 1) |-> 0])
    IN  [frequencies |-> frequencies,
         squaredMagnitude |->
             SumOfSquares(frequencies, {i \in DOMAIN frequencies : frequencies[i] # 0})]

EmbeddingProviders == {"openai", "local-wasm"}

EmbeddingTexts == {<<>>, <<"a">>, <<"a", "b">>, <<"b", " ", "z">>}

TextLists == UNION {[1..n -> EmbeddingTexts] : n \in 0..MaxTexts}

Vectors(embeddings) == [kind |-> "vectors", embeddings |-> embeddings]

\* new EmbeddingsManager(provider, apiKey): initializeOpenAI is started, not
\* awaited
EmbeddingsManager_new(provider, apiKey) ==
    /\ call.fn = "none"
    /\ call' = [fn |-> "EmbeddingsManager", provider |-> provider,
                apiKey |-> apiKey, openaiClient |-> "null",
                importing |-> (provider = "openai" /\ Truthy(apiKey)),
                localEmbeddingModel |-> "null", pc |-> "idle",
                texts |-> <<>>, outcome |-> PendingOutcome]
    /\ UNCHANGED <<mgrVars, hook, storedChatHistory, turns, router, otherVars>>

\* The import of initializeOpenAI settles: the client is created, or the
\* import fails and the client stays null
initializeOpenAI_settles(imported) ==
    /\ call.fn = "EmbeddingsManager" /\ call.importing
    /\ call' = [call EXCEPT !.importing = FALSE,
                            !.openaiClient = IF imported THEN "client" ELSE "null"]
    /\ UNCHANGED <<mgrVars, hook, storedChatHistory, turns, router, otherVars>>

\* computeEmbeddings up to its first await on the network
computeEmbeddings(texts) ==
    /\ call.fn = "EmbeddingsManager" /\ call.pc = "idle"
    /\ call' =
         IF call.provider = "openai"
         THEN IF call.openaiClient = "null"
              THEN [call EXCEPT !.texts = texts, !.pc = "done",
                                !.outcome = ErrorOf("OpenAI client not initialized", 0, "")]
              ELSE [call EXCEPT !.texts = texts, !.pc = "create"]
         ELSE IF call.provider = "local-wasm"
         THEN [call EXCEPT
                 !.texts = texts, !.pc = "done",
                 !.localEmbeddingModel = "initialized",
                 !.outcome = Vectors([i \in DOMAIN texts |->
                                         computeSimpleEmbedding(texts[i])])]
         ELSE [call EXCEPT !.texts = texts, !.pc = "done",
                           !.outcome = ErrorOf("Unsupported embedding provider", 0,
                                               call.provider)]
    /\ UNCHANGED <<mgrVars, hook, storedChatHistory, turns, router, otherVars>>

\* openaiClient.embeddings.create settles: the provider's vectors are
\* returned as they are, or the failure is rethrown
embeddings_create_settles(succeeded) ==
    /\ call.fn = "EmbeddingsManager" /\ call.pc = "create"
    /\ call' = [call EXCEPT
                  !.pc = "done",
                  !.outcome = IF succeeded
                              THEN Vectors([i \in DOMAIN call.texts |-> "item.embedding"])
                              ELSE ErrorOf("Failed to compute OpenAI embeddings", 0, "")]
    /\ UNCHANGED <<mgrVars, hook, storedChatHistory, turns, router, otherVars>>

EmbeddingsNext ==
    \/ \E provider \in EmbeddingProviders, apiKey \in ApiKeys :
          EmbeddingsManager_new(provider, apiKey)
    \/ \E imported \in BOOLEAN : initializeOpenAI_settles(imported)
    \/ \E texts \in TextLists : computeEmbeddings(texts)
    \/ \E succeeded \in BOOLEAN : embeddings_create_settles(succeeded)

EmbeddingsSpec == Init /\ [][EmbeddingsNext]_vars

----------------------------------------------------------------------------
(* TemplateManager.  templates.stored is the array under 'promptTemplates'; *)
(* a missing key is the empty array, which getTemplates treats alike        *)
(* (!promptTemplates || promptTemplates.length === 0).  Each method runs to *)
(* completion in one step; templates.ret is the method called last and the  *)
(* error it threw ("none" when it returned).  Timestamps and descriptions   *)
(* are left out of the records.                                             *)

Template(id, title, prompt, isDefault) ==
    [id |-> id, title |-> title, prompt |-> prompt, isDefault |-> isDefault]

getDefaultTemplates ==
    <<Template("summarize-page", "Summarize Page", "p1", TRUE),
      Template("extract-key-points", "Extract Key Points", "p2", TRUE),
      Template("explain-simply", "Explain Simply", "p3", TRUE),
      Template("find-action-items", "Find Action Items", "p4", TRUE),
      Template("analyze-pros-cons", "Analyze Pros & Cons", "p5", TRUE)>>

\* getTemplates: the array returned ...
getTemplatesValue(promptTemplates) ==
    IF promptTemplates = <<>> THEN getDefaultTemplates ELSE promptTemplates

\* ... which is also the array stored when it returns (the defaults are
\* saved when nothing is stored)
getTemplatesStore(promptTemplates) == getTemplatesValue(promptTemplates)

IdsOf(list) == {list[i].id : i \in DOMAIN list}

\* templates.findIndex(t => t.id === id), counted from 1; 0 for -1
findIndex(list, id) ==
    IF id \in IdsOf(list)
    THEN CHOOSE i \in DOMAIN list :
            list[i].id = id /\ \A j \in 1..(i - 1) : list[j].id # id
    ELSE 0

TemplateRet(op, error) == [op |-> op, error |-> error]

\* `template_${Date.now()}_${Math.random()...}`: an id no stored template has
NewTemplateIds == {"template_1", "template_2", "template_3", "template_4"}

addTemplate(id, title, prompt) ==
    /\ templates.ops < MaxTemplateOps
    /\ LET list == getTemplatesValue(templates.stored)
       IN  /\ id \notin IdsOf(list)
           /\ templates' =
                [stored |-> Append(list, Template(id, title, prompt, FALSE)),
                 ops |-> templates.ops + 1,
                 ret |-> TemplateRet("addTemplate", "none")]
    /\ UNCHANGED <<mgrVars, chatVars, call, procs>>

updateTemplate(id, title) ==
    /\ templates.ops < MaxTemplateOps
    /\ LET list == getTemplatesValue(templates.stored)
           templateIndex == findIndex(list, id)
       IN  templates' =
             IF templateIndex = 0
             THEN [stored |-> getTemplatesStore(templates.stored),
                   ops |-> templates.ops + 1,
                   ret |-> TemplateRet("updateTemplate", "Template not found")]
             ELSE [stored |-> [list EXCEPT ![templateIndex].title = title],
                   ops |-> templates.ops + 1,
                   ret |-> TemplateRet("updateTemplate", "none")]
    /\ UNCHANGED <<mgrVars, chatVars, call, procs>>

deleteTemplate(id) ==
    /\ templates.ops < MaxTemplateOps
    /\ LET list == getTemplatesValue(templates.stored)
           index == findIndex(list, id)
           other(t) == t.id # id
       IN  templates' =
             IF index = 0
             THEN [stored |-> getTemplatesStore(templates.stored),
                   ops |-> templates.ops + 1,
                   ret |-> TemplateRet("deleteTemplate", "Template not found")]
             ELSE IF list[index].isDefault
             THEN [stored |-> getTemplatesStore(templates.stored),
                   ops |-> templates.ops + 1,
                   ret |-> TemplateRet("deleteTemplate",
                                       "Cannot delete default templates")]
             ELSE [stored |-> SelectSeq(list, other),
                   ops |-> templates.ops + 1,
                   ret |-> TemplateRet("deleteTemplate", "none")]
    /\ UNCHANGED <<mgrVars, chatVars, call, procs>>

resetToDefaults ==
    /\ templates.ops < MaxTemplateOps
    /\ templates' = [stored |-> getDefaultTemplates,
                     ops |-> templates.ops + 1,
                     ret |-> TemplateRet("resetToDefaults", "none")]
    /\ UNCHANGED <<mgrVars, chatVars, call, procs>>

\* What JSON.parse makes of the text given to importTemplates: a syntax
\* error, a value that is not an array, or an array of objects.  A property
\* an object lacks is "undefined".
MalformedJson == [parsed |-> "SyntaxError", value |-> <<>>]

NotAnArray == [parsed |-> "object", value |-> <<>>]

JsonArray(entries) == [parsed |-> "array", value |-> entries]

\* (mutant: the prompt of an entry is not looked at)
ValidTemplate_NoPrompt(template) ==
    template.id \notin {"undefined", ""} /\ template.title \notin {"undefined", ""}

\* !(!template.id || !template.title || !template.prompt)
ValidTemplate(template) ==
    /\ template.id \notin {"undefined", ""}
    /\ template.title \notin {"undefined", ""}
    /\ template.prompt \notin {"undefined", ""}

\* The error importTemplates throws before it reads or writes the store
\* ("none" when the payload passes the validation)
importError(jsonData) ==
    IF jsonData.parsed = "SyntaxError" THEN "SyntaxError"
    ELSE IF jsonData.parsed # "array" THEN "Invalid template data format"
    ELSE IF \E i \in DOMAIN jsonData.value : ~ValidTemplate(jsonData.value[i])
    THEN "Invalid template structure"
    ELSE "none"

\* The merge loop: an imported template is added when no EXISTING template
\* has its id
RECURSIVE mergeTemplates(_, _, _)
mergeTemplates(existingTemplates, mergedTemplates, importedTemplates) ==
    IF importedTemplates = <<>> THEN mergedTemplates
    ELSE LET importedTemplate == Head(importedTemplates)
         IN mergeTemplates(existingTemplates,
               IF importedTemplate.id \notin IdsOf(existingTemplates)
               THEN Append(mergedTemplates,
                           [importedTemplate EXCEPT !.isDefault = FALSE])
               ELSE mergedTemplates,
               Tail(importedTemplates))

importTemplates(jsonData, replace) ==
    /\ templates.ops < MaxTemplateOps
    /\ LET error == importError(jsonData)
           existingTemplates == getTemplatesValue(templates.stored)
       IN  templates' =
             [stored |-> IF error # "none" THEN templates.stored
                         ELSE IF replace THEN jsonData.value
                         ELSE mergeTemplates(existingTemplates, existingTemplates,
                                             jsonData.value),
              ops |-> templates.ops + 1,
              ret |-> [op |-> "importTemplates", error |-> error,
                       jsonData |-> jsonData, replace |-> replace]]
    /\ UNCHANGED <<mgrVars, chatVars, call, procs>>

getTemplates ==
    /\ templates.ops < MaxTemplateOps
    /\ templates' = [stored |-> getTemplatesStore(templates.stored),
                     ops |-> templates.ops + 1,
                     ret |-> TemplateRet("getTemplates", "none")]
    /\ UNCHANGED <<mgrVars, chatVars, call, procs>>

(* Inputs of the TemplateManager *)

ImportEntries ==
    {Template("x", "t", "p", FALSE),
     Template("x", "t2", "p", FALSE),
     Template("summarize-page", "t", "p", FALSE),
     Template("y", "t", "undefined", FALSE),
     Template("", "t", "p", FALSE),
     Template("y", "undefined", "p", TRUE)}

ImportPayloads ==
    {MalformedJson, NotAnArray}
       \cup {JsonArray(entries) :
                entries \in UNION {[1..n -> ImportEntries] : n \in 0..MaxImport}}

TemplateIds == NewTemplateIds \cup IdsOf(getDefaultTemplates) \cup {"x", "y"}

TemplateNext ==
    \/ getTemplates
    \/ \E id \in NewTemplateIds : addTemplate(id, "t", "p")
    \/ \E id \in TemplateIds : updateTemplate(id, "t2")
    \/ \E id \in TemplateIds : deleteTemplate(id)
    \/ resetToDefaults
    \/ \E jsonData \in ImportPayloads, replace \in BOOLEAN :
          importTemplates(jsonData, replace)

TemplateSpec == Init /\ [][TemplateNext]_vars

----------------------------------------------------------------------------
(* The conversation transcript of handleProcessChatMessage *)

\* history.slice(-n): the last n elements, all of them when there are fewer
sliceLast(history, n) ==
    SubSeq(history, IntMax(1, Len(history) - n + 1), Len(history))

\* (m.content || '').toString().slice(0, 800)
snippetOf(m) == Slice(m.content, SNIPPET_LENGTH)

\* The loop over lastN: system messages are skipped, every other message
\* gives the line `${role}: ${snippet}`
RECURSIVE transcriptLines(_)
transcriptLines(lastN) ==
    IF lastN = <<>> THEN <<>>
    ELSE LET m == Head(lastN)
             role == IF m.role = "assistant" THEN <<"Assistant">> ELSE <<"User">>
         IN  IF m.role = "system" THEN transcriptLines(Tail(lastN))
             ELSE <<role \o <<":", " ">> \o snippetOf(m)>>
                     \o transcriptLines(Tail(lastN))

conversationText(chatHistory) ==
    join(transcriptLines(sliceLast(chatHistory, TRANSCRIPT_MESSAGES)), <<"\n">>)

(* Inputs of the transcript builder *)

ChatRoles == {"user", "assistant", "system"}

ChatContents == {<<>>, <<"a", "b">>, <<"c", "d", "e", "f">>}

ChatMessagesOf == [role : ChatRoles, content : ChatContents]

conversationText_call(chatHistory) ==
    /\ call.fn = "none"
    /\ call' = [fn |-> "conversationText", chatHistory |-> chatHistory,
                result |-> conversationText(chatHistory)]
    /\ UNCHANGED <<mgrVars, hook, storedChatHistory, turns, router, otherVars>>

TranscriptNext ==
    /\ call.fn = "none"
    /\ \E n \in 0..MaxHistory :
          \E chatHistory \in [1..n -> ChatMessagesOf] :
             conversationText_call(chatHistory)

TranscriptSpec == Init /\ [][TranscriptNext]_vars

----------------------------------------------------------------------------
(* TabChatManager with its awaits: a call of a method is suspended at each *)
(* await of chrome.storage.local.get, chrome.storage.local.set and         *)
(* chrome.tabs.query, and the calls in flight resume in any order          *)

\* The session of the popup that is open, and the page it shows
PopupSession == "a"

PopupPage == [url |-> "u1", title |-> "t1", pageContent |-> "undefined"]

\* What chrome.storage.local holds under 'tabChatContexts' when the service
\* worker starts: the records earlier saveTabContext calls left there
SeedContext(tabId) ==
    NewContext(tabId, PopupPage.url, PopupPage.title, PopupSession, <<>>,
               PopupPage.pageContent, 0)

SeedStores ==
    {<<>>} \cup
    {saveContext(<<>>, SeedContext(t)) : t \in TabIds} \cup
    {saveContext(saveContext(<<>>, SeedContext(t)), SeedContext(u)) :
        <<t, u>> \in {<<1, 11>>, <<11, 1>>}}

\* A call in flight: the method, the await it is suspended at, its
\* arguments, its locals (context, contexts, openTabIds, now) not yet
\* assigned, and the tabs that were open when it was called
Proc(op, pc, tabId, sessionKey, url, chatHistory) ==
    [op |-> op, pc |-> pc, tabId |-> tabId, sessionKey |-> sessionKey,
     url |-> url, chatHistory |-> chatHistory, context |-> <<>>,
     contexts |-> <<>>, openTabIds |-> {}, now |-> 0, tabsAtCall |-> openTabs]

\* The service worker starts with whatever the store kept
ConcInit ==
    /\ store \in SeedStores
    /\ clock = 0
    /\ openTabs = TabIds
    /\ ret = NoCall
    /\ ops = 0
    /\ hook = [h \in Hooks |-> Unmounted]
    /\ storedChatHistory = <<>>
    /\ turns = 0
    /\ router = [request |-> "none", log |-> <<>>]
    /\ call = [fn |-> "none"]
    /\ templates = [stored |-> <<>>, ops |-> 0, ret |-> [op |-> "none"]]
    /\ procs = <<>>

\* getTabContext is called: it suspends at its storage.get
getTabContext_call(tabId, url, sessionKey) ==
    /\ Len(procs) < MaxProcs
    /\ procs' = Append(procs, Proc("getTabContext", "get", tabId, sessionKey,
                                   url, <<>>))
    /\ UNCHANGED <<mgrVars, chatVars, call, templates>>

\* its storage.get resolves: on a hit lastAccessedAt = Date.now() and the
\* call suspends at the storage.get of saveContext, else it returns null
getTabContext_get(p) ==
    /\ procs[p].op = "getTabContext" /\ procs[p].pc = "get"
    /\ LET value == getTabContextValue(store, procs[p].tabId, procs[p].url,
                                       procs[p].sessionKey, clock)
       IN procs' = [procs EXCEPT ![p].context = value,
                                 ![p].pc = IF value # <<>> THEN "saveContext.get"
                                           ELSE "done"]
    /\ UNCHANGED <<mgrVars, chatVars, call, templates>>

\* saveTabContext is called: the context is built with Date.now() and the
\* call suspends at the storage.get of saveContext
saveTabContext_call(tabId, url, title, sessionKey, chatHistory, pageContent) ==
    /\ Len(procs) < MaxProcs
    /\ procs' = Append(procs,
          [Proc("saveTabContext", "saveContext.get", tabId, sessionKey, url,
                chatHistory)
             EXCEPT !.context =
                <<NewContext(tabId, url, title, sessionKey, chatHistory,
                             pageContent, clock)>>])
    /\ UNCHANGED <<mgrVars, chatVars, call, templates>>

\* updateChatHistory is called: it suspends at its storage.get
updateChatHistory_call(tabId, sessionKey, chatHistory) ==
    /\ Len(procs) < MaxProcs
    /\ procs' = Append(procs, Proc("updateChatHistory", "get", tabId,
                                   sessionKey, "", chatHistory))
    /\ UNCHANGED <<mgrVars, chatVars, call, templates>>

\* its storage.get resolves: if the record is there it is patched and the
\* call suspends at the storage.get of saveContext
updateChatHistory_get(p) ==
    /\ procs[p].op = "updateChatHistory" /\ procs[p].pc = "get"
    /\ LET contextKey == generateContextKey(procs[p].tabId, procs[p].sessionKey)
       IN IF HasKey(store, contextKey)
          THEN procs' = [procs EXCEPT
                  ![p].context =
                      <<[Lookup(store, contextKey) EXCEPT
                            !.chatHistory = procs[p].chatHistory,
                            !.lastAccessedAt = clock]>>,
                  ![p].pc = "saveContext.get"]
          ELSE procs' = [procs EXCEPT ![p].pc = "done"]
    /\ UNCHANGED <<mgrVars, chatVars, call, templates>>

\* The storage.get of saveContext resolves: the key is assigned in the
\* object just read and the call suspends at storage.set
saveContext_get(p) ==
    /\ procs[p].pc = "saveContext.get"
    /\ procs' = [procs EXCEPT
          ![p].contexts = saveContext(store, procs[p].context[1]),
          ![p].pc = "set"]
    /\ UNCHANGED <<mgrVars, chatVars, call, templates>>

\* removeTabContext is called: it suspends at its storage.get
removeTabContext_call(tabId, sessionKey) ==
    /\ Len(procs) < MaxProcs
    /\ procs' = Append(procs, Proc("removeTabContext", "get", tabId,
                                   sessionKey, "", <<>>))
    /\ UNCHANGED <<mgrVars, chatVars, call, templates>>

\* its storage.get resolves: the keys are deleted from the object just read
\* and the call suspends at storage.set
removeTabContext_get(p) ==
    /\ procs[p].op = "removeTabContext" /\ procs[p].pc = "get"
    /\ procs' = [procs EXCEPT
          ![p].contexts = removeTabContextStore(store, procs[p].tabId,
                                                procs[p].sessionKey),
          ![p].pc = "set"]
    /\ UNCHANGED <<mgrVars, chatVars, call, templates>>

\* initialize: cleanupContexts and validateAndCleanupTabs are called one
\* after the other, neither awaited; the first suspends at its storage.get,
\* the second at chrome.tabs.query
initialize ==
    /\ Len(procs) + 1 < MaxProcs
    /\ procs' = procs \o
          <<Proc("cleanupContexts", "get", 0, "undefined", "", <<>>),
            Proc("validateAndCleanupTabs", "query", 0, "undefined", "", <<>>)>>
    /\ UNCHANGED <<mgrVars, chatVars, call, templates>>

\* The storage.get of cleanupContexts resolves: now = Date.now(), and the
\* call suspends at storage.set only if removedCount > 0
cleanupContexts_get(p) ==
    /\ procs[p].op = "cleanupContexts" /\ procs[p].pc = "get"
    /\ LET validContexts == cleanupContextsStore(store, clock)
           removedCount == Len(store) - Len(validContexts)
       IN procs' = [procs EXCEPT
             ![p].now = clock,
             ![p].contexts = validContexts,
             ![p].pc = IF removedCount > 0 THEN "set" ELSE "done"]
    /\ UNCHANGED <<mgrVars, chatVars, call, templates>>

\* chrome.tabs.query of validateAndCleanupTabs resolves with the open tabs
validateAndCleanupTabs_query(p) ==
    /\ procs[p].op = "validateAndCleanupTabs" /\ procs[p].pc = "query"
    /\ procs' = [procs EXCEPT ![p].openTabIds = openTabs, ![p].pc = "get"]
    /\ UNCHANGED <<mgrVars, chatVars, call, templates>>

\* its storage.get resolves: the call suspends at storage.set only if
\* cleanupNeeded
validateAndCleanupTabs_get(p) ==
    /\ procs[p].op = "validateAndCleanupTabs" /\ procs[p].pc = "get"
    /\ LET validContexts ==
              validateAndCleanupTabsStore(store, procs[p].openTabIds)
           cleanupNeeded == Len(validContexts) < Len(store)
       IN procs' = [procs EXCEPT
             ![p].contexts = validContexts,
             ![p].pc = IF cleanupNeeded THEN "set" ELSE "done"]
    /\ UNCHANGED <<mgrVars, chatVars, call, templates>>

\* chrome.storage.local.set of a call takes effect: the whole object under
\* 'tabChatContexts' is replaced by the one the call holds
storage_set(p) ==
    /\ procs[p].pc = "set"
    /\ store' = procs[p].contexts
    /\ procs' = [procs EXCEPT ![p].pc = "done"]
    /\ UNCHANGED <<clock, openTabs, ret, ops, chatVars, call, templates>>

ConcNext ==
    \/ \E t \in TabIds : getTabContext_call(t, PopupPage.url, PopupSession)
    \/ \E t \in TabIds :
          saveTabContext_call(t, PopupPage.url, PopupPage.title, PopupSession,
                              <<UserMsg, AssistantMsg>>, PopupPage.pageContent)
    \/ \E t \in TabIds :
          updateChatHistory_call(t, PopupSession, <<UserMsg, AssistantMsg>>)
    \/ \E t \in TabIds : removeTabContext_call(t, "undefined")
    \/ initialize
    \/ \E p \in DOMAIN procs : getTabContext_get(p)
    \/ \E p \in DOMAIN procs : updateChatHistory_get(p)
    \/ \E p \in DOMAIN procs : saveContext_get(p)
    \/ \E p \in DOMAIN procs : removeTabContext_get(p)
    \/ \E p \in DOMAIN procs : cleanupContexts_get(p)
    \/ \E p \in DOMAIN procs : validateAndCleanupTabs_query(p)
    \/ \E p \in DOMAIN procs : validateAndCleanupTabs_get(p)
    \/ \E p \in DOMAIN procs : storage_set(p)
    \/ Tick
    \/ \E t \in TabIds : CloseTab(t)

ConcSpec == ConcInit /\ [][ConcNext]_vars

----------------------------------------------------------------------------
(* Claims about the session manager *)

KeyOf(tabId, sessionKey) == generateContextKey(tabId, sessionKey)

\* An entry of `before` is kept as it was in `after`
Retained(before, after, key) ==
    HasKey(after, key) /\ Lookup(after, key) = Lookup(before, key)

\* C1: after cleanupContexts has run, every record left is at most MAX_AGE
\* old, at most MAX_CONTEXTS records are left, and every record that was
\* inside the age window and was removed all the same (by the count cap) was
\* accessed no later than every surviving record.
C1_CleanupEviction ==
    [][ret'.op = "cleanupContexts" =>
        /\ \A c \in Values(store') : clock' - c.lastAccessedAt <= MAX_AGE
        /\ Len(store') <= MAX_CONTEXTS
        /\ \A i \in DOMAIN store :
              (InAgeWindow(store[i].ctx, clock) /\ ~HasKey(store', store[i].key))
              => \A c \in Values(store') :
                    store[i].ctx.lastAccessedAt <= c.lastAccessedAt
        /\ \A i \in DOMAIN store' : Retained(store, store', store'[i].key)
      ]_vars

\* C1 witness: a cleanup has kept MAX_CONTEXTS records and has removed a
\* record that was inside the age window and was accessed earlier than a
\* survivor
C1_Witness ==
    /\ ret.op = "cleanupContexts"
    /\ Len(store) = MAX_CONTEXTS
    /\ \E i \in DOMAIN ret.removed :
          /\ InAgeWindow(ret.removed[i].ctx, clock)
          /\ \E c \in Values(store) :
                ret.removed[i].ctx.lastAccessedAt < c.lastAccessedAt

ProbeTabIds == {0, 1, 11, 111}
ProbeSessionKeys == {"", "a", "1", "_", "1_", "_1", "1_a", "11_a", "_1_a",
                     "1_1", "_a"}

\* Distinct (tabId, sessionKey) pairs have distinct storage keys
KeyInjective ==
    \A t1, t2 \in ProbeTabIds : \A s1, s2 \in ProbeSessionKeys :
        KeyOf(t1, s1) = KeyOf(t2, s2) => (t1 = t2 /\ s1 = s2)

OneRecordPerPair(contexts) ==
    /\ \A i \in DOMAIN contexts :
          contexts[i].key = KeyOf(contexts[i].ctx.tabId, contexts[i].ctx.sessionKey)
    /\ \A i, j \in DOMAIN contexts :
          (contexts[i].ctx.tabId = contexts[j].ctx.tabId
             /\ contexts[i].ctx.sessionKey = contexts[j].ctx.sessionKey) => i = j

\* C3: generateContextKey is injective, every record is stored under the key
\* of its own tabId and sessionKey, the store holds at most one record per
\* (tabId, sessionKey), and a saveTabContext for a session key the tab has no
\* record of adds one record and leaves every earlier record as it was.
C3_OneContextPerPair ==
    [][/\ KeyInjective
       /\ OneRecordPerPair(store')
       /\ (ret'.op = "saveTabContext"
             /\ ~HasKey(store, KeyOf(ret'.tabId, ret'.sessionKey)))
          => /\ Len(store') = Len(store) + 1
             /\ \A i \in DOMAIN store : Retained(store, store', store[i].key)
      ]_vars

\* C3 witness: a save for a new session of a tab has added a second record,
\* after the record of the tab's earlier session
C3_Witness ==
    /\ ret.op = "saveTabContext"
    /\ Len(store) = 2
    /\ store[1].ctx.tabId = ret.tabId
    /\ store[1].ctx.sessionKey # ret.sessionKey
    /\ store[2].key = KeyOf(ret.tabId, ret.sessionKey)
    /\ store[1].ctx.createdAt < store[2].ctx.createdAt

\* C4: getTabContext returns the record under the composite key exactly
\* when it exists and its url is the requested one; on a hit the returned
\* record is the stored one with lastAccessedAt set to the current time, the
\* store holds that record when the call returns, and a second identical
\* call returns the same chatHistory; otherwise it returns null and the
\* store is unchanged.
C4_GetTabContext ==
    [][ret'.op = "getTabContext" =>
        LET key == KeyOf(ret'.tabId, ret'.sessionKey)
            hit == HasKey(store, key) /\ Lookup(store, key).url = ret'.url
        IN  IF hit
            THEN /\ ret'.value =
                      <<[Lookup(store, key) EXCEPT !.lastAccessedAt = clock']>>
                 /\ ret'.value[1].chatHistory = Lookup(store, key).chatHistory
                 /\ Lookup(store', key) = ret'.value[1]
                 /\ \A i \in DOMAIN store :
                       store[i].key # key => Retained(store, store', store[i].key)
                 /\ Len(store') = Len(store)
                 /\ LET again == getTabContextValue(store', ret'.tabId, ret'.url,
                                                    ret'.sessionKey, clock')
                    IN  /\ again # <<>>
                        /\ again[1].chatHistory = ret'.value[1].chatHistory
            ELSE /\ ret'.value = <<>>
                 /\ store' = store
      ]_vars

\* C4 witness: a hit on a record with a transcript, later than its creation
C4_Witness ==
    /\ ret.op = "getTabContext"
    /\ ret.value # <<>>
    /\ ret.value[1].chatHistory # <<>>
    /\ ret.value[1].createdAt < ret.value[1].lastAccessedAt

C6_RemoveTabContext ==
    [][ret'.op = "removeTabContext" =>
        IF ret'.sessionKey # "undefined"
        THEN store' = DeleteKey(store, KeyOf(ret'.tabId, ret'.sessionKey))
        ELSE /\ \A c \in Values(store') : c.tabId # ret'.tabId
             /\ \A i \in DOMAIN store :
                   store[i].ctx.tabId # ret'.tabId
                   => Retained(store, store', store[i].key)
      ]_vars

\* C7: after validateAndCleanupTabs has run, no stored record belongs to a
\* tab outside the open tabs the host reported, and every record of an open
\* tab is kept as it was.
C7_ValidateTabs ==
    [][ret'.op = "validateAndCleanupTabs" =>
        /\ \A c \in Values(store') : c.tabId \in openTabs
        /\ \A i \in DOMAIN store :
              store[i].ctx.tabId \in openTabs
              => Retained(store, store', store[i].key)
        /\ Len(store') <= Len(store)
      ]_vars

\* C7 witness: a validation has removed the record of a closed tab and kept
\* the record of an open one
C7_Witness ==
    /\ ret.op = "validateAndCleanupTabs"
    /\ ret.removed # <<>>
    /\ store # <<>>

----------------------------------------------------------------------------
(* Claims about the chat turn *)

\* The step on which a hook's sendMessage reaches the end of its finally block
TurnCompleted(h) == hook[h].isProcessing /\ ~hook'[h].isProcessing

EndsWith(transcript, first, second) ==
    /\ Len(transcript) >= 2
    /\ transcript[Len(transcript) - 1] = first
    /\ transcript[Len(transcript)] = second

\* C8: when a chat request (PROCESS_CHAT_MESSAGE) of a tab session completes
\* successfully, the transcript the store holds for that (tabId, sessionKey)
\* ends with the user message followed by the assistant's reply.
C8_TranscriptAfterSuccess ==
    [][(TurnCompleted("useTabChat") /\ hook'["useTabChat"].outcome = "success")
         => EndsWith(PersistedTranscript(store', storedChatHistory', hook',
                                         "useTabChat"),
                     UserMsg,
                     AssistantReply(hook["useTabChat"].response.content))]_vars

\* C9: when generation fails during a chat turn (an error reply of the
\* gateway, a reply without success, or an exception while messaging), the
\* transcript persisted after the turn is the transcript persisted before the
\* turn followed by the user message and one assistant message describing the
\* error, so that no earlier message is removed or altered.
C9_TranscriptAfterFailure ==
    [][\A h \in Hooks :
          (TurnCompleted(h) /\ hook'[h].outcome \in {"failure", "exception"})
            => LET shown == hook'[h].messages
                   errorMessage == shown[Len(shown)]
               IN /\ errorMessage.role = "assistant"
                  /\ PersistedTranscript(store', storedChatHistory', hook', h)
                       = hook[h].before \o <<UserMsg, errorMessage>>]_vars

----------------------------------------------------------------------------
(* Claims about the periodic cleanup pass *)

PassKeys == {generateContextKey(t, s) : t \in TabIds, s \in PassSessionKeys}

\* The record under key belongs to a tab that has closed
TabClosed(key) ==
    HasKey(store, key) /\ Lookup(store, key).tabId \notin openTabs

\* The record under key has not been accessed for longer than MAX_AGE
Expired(key) ==
    HasKey(store, key) /\ clock - Lookup(store, key).lastAccessedAt > MAX_AGE

PassStore(contexts, now, openTabIds) ==
    validateAndCleanupTabsStore(cleanupContextsStore(contexts, now), openTabIds)

\* The same two methods in the other order
PassStoreReversed(contexts, now, openTabIds) ==
    cleanupContextsStore(validateAndCleanupTabsStore(contexts, openTabIds), now)

\* C11: the cleanup pass is idempotent: from every reachable store, running
\* cleanupContexts and validateAndCleanupTabs a second time right after the
\* first, with the same clock value and the same open tabs, leaves the store
\* exactly as the first run left it (entries and their order); this holds for
\* each method alone and for the pass in either order.
C11_PassIdempotent ==
    LET once == PassStore(store, clock, openTabs)
        onceReversed == PassStoreReversed(store, clock, openTabs)
        cleaned == cleanupContextsStore(store, clock)
        validated == validateAndCleanupTabsStore(store, openTabs)
    IN  /\ PassStore(once, clock, openTabs) = once
        /\ PassStoreReversed(onceReversed, clock, openTabs) = onceReversed
        /\ cleanupContextsStore(cleaned, clock) = cleaned
        /\ validateAndCleanupTabsStore(validated, openTabs) = validated

\* A store from which the first run deletes a record by the count cap and
\* keeps another one
C11_Witness ==
    LET cleaned == cleanupContextsStore(store, clock)
    IN  /\ Len(store) > MAX_CONTEXTS
        /\ \A i \in DOMAIN store : InAgeWindow(store[i].ctx, clock)
        /\ cleaned # store
        /\ cleaned # <<>>

----------------------------------------------------------------------------
(* Claims about the background's replies *)

\* {success: true, data} or {success: false, error}
ContractReply(reply) ==
    \/ reply.success = "true" /\ reply.data # "undefined"
                              /\ reply.error = "undefined" /\ reply.pong = "undefined"
    \/ reply.success = "false" /\ reply.error # "undefined"
                               /\ reply.data = "undefined" /\ reply.pong = "undefined"

\* C12: every reply of the background message handler, for every request
\* type (PING, unknown types and every failure path included), is either
\* {success: true, data} or {success: false, error}, and each request
\* receives exactly one reply.
C12_ReplyShape ==
    \A i \in DOMAIN router.log :
        /\ Len(router.log[i].replies) = 1
        /\ ContractReply(router.log[i].replies[1])

----------------------------------------------------------------------------
(* Claims about retrieval and context assembly *)

RECURSIVE BlocksOf(_)
BlocksOf(chunks) ==
    IF chunks = <<>> THEN <<>>
    ELSE SourceBlock(Head(chunks)) \o BlocksOf(Tail(chunks))

\* text is whole up to white space at its end
WholeButTrailingSpace(text, whole) ==
    /\ Len(text) <= Len(whole)
    /\ text = SubSeq(whole, 1, Len(text))
    /\ \A i \in (Len(text) + 1)..Len(whole) : IsSpace(whole[i])

\* C13: for every list of chunks, the context string built by
\* buildContextText is no longer than MAX_CONTEXT_LENGTH characters and is
\* made of the whole '[Source: url] / chunkText' blocks of a prefix of the
\* given chunks in their given order (less the white space that ends the last
\* block); no chunk is cut mid-chunk.
C13_ContextText ==
    call.fn = "buildContextText" =>
        /\ Len(call.result) <= MAX_CONTEXT_LENGTH
        /\ \E n \in 0..Len(call.chunks) :
              WholeButTrailingSpace(call.result,
                                    BlocksOf(SubSeq(call.chunks, 1, n)))

\* Three chunks were given, the second would overflow and the third alone
\* would fit
C13_Witness ==
    /\ call.fn = "buildContextText"
    /\ Len(call.chunks) = 3
    /\ call.result # <<>>
    /\ Len(SourceBlock(call.chunks[1])) + Len(SourceBlock(call.chunks[2]))
          > MAX_CONTEXT_LENGTH
    /\ Len(SourceBlock(call.chunks[1])) + Len(SourceBlock(call.chunks[3]))
          <= MAX_CONTEXT_LENGTH

Count(seq, x) == Cardinality({i \in DOMAIN seq : seq[i] = x})

\* C14: searchRelevantChunks returns at most topK chunks, each with score >=
\* 0.7, in non-increasing score order, and every chunk it leaves out scores
\* below 0.7 or no higher than every returned chunk; for an empty chunk list,
\* or when no chunk reaches the threshold, it returns the empty list.
C14_SearchRelevantChunks ==
    call.fn = "searchRelevantChunks" =>
        LET Score(chunk) == computeRelevanceScore(call.query, chunk)
            result == call.result
            relevant(chunk) == RatLeq(SIMILARITY_THRESHOLD, Score(chunk))
        IN  /\ Len(result) <= call.topK
            /\ \A i \in DOMAIN result :
                  /\ relevant(result[i])
                  /\ Count(result, result[i]) <= Count(call.chunks, result[i])
            /\ \A i, j \in DOMAIN result :
                  i < j => RatLeq(Score(result[j]), Score(result[i]))
            /\ \A i \in DOMAIN call.chunks :
                  Count(result, call.chunks[i]) < Count(call.chunks, call.chunks[i])
                    => \/ ~relevant(call.chunks[i])
                       \/ \A j \in DOMAIN result :
                             RatLeq(Score(call.chunks[i]), Score(result[j]))
            /\ (\A i \in DOMAIN call.chunks : ~relevant(call.chunks[i]))
                  => result = <<>>

\* A chunk that reaches the threshold is cut by topK, and the chunks returned
\* do not all score the same
C14_Witness ==
    /\ call.fn = "searchRelevantChunks"
    /\ Len(call.result) = 2
    /\ ~RatEq(computeRelevanceScore(call.query, call.result[1]),
              computeRelevanceScore(call.query, call.result[2]))
    /\ \E i \in DOMAIN call.chunks :
          /\ Count(call.result, call.chunks[i]) < Count(call.chunks, call.chunks[i])
          /\ RatLeq(SIMILARITY_THRESHOLD,
                    computeRelevanceScore(call.query, call.chunks[i]))

\* The scorer the claim describes: the best, over chunk tokens, of
\* min(len) / max(len) when one token is a substring of the other
RECURSIVE ReferenceBest(_, _)
ReferenceBest(queryToken, chunkTokens) ==
    IF chunkTokens = <<>> THEN Rat(0, 1)
    ELSE LET chunkToken == Head(chunkTokens)
             rest == ReferenceBest(queryToken, Tail(chunkTokens))
         IN IF includes(chunkToken, queryToken) \/ includes(queryToken, chunkToken)
            THEN RatMax(rest,
                        Rat(IntMin(Len(queryToken), Len(chunkToken)),
                            IntMax(Len(queryToken), Len(chunkToken))))
            ELSE rest

RECURSIVE ReferenceSum(_, _)
ReferenceSum(queryTokens, chunkTokens) ==
    IF queryTokens = <<>> THEN Rat(0, 1)
    ELSE LET rest == ReferenceSum(Tail(queryTokens), chunkTokens)
         IN IF Len(Head(queryTokens)) < 3 THEN rest
            ELSE RatAdd(ReferenceBest(Head(queryTokens), chunkTokens), rest)

ReferenceScore(query, chunkString) ==
    LET queryTokens == split(toLowerCase(query))
        chunkTokens == split(toLowerCase(chunkString))
        sum == ReferenceSum(queryTokens, chunkTokens)
    IN  Rat(sum.n, sum.d * Len(queryTokens))

\* C15: for every query and chunk, computeRelevanceScore equals the reference
\* scorer: the sum, over query tokens of length >= 3, of the best value over
\* chunk tokens of min(len(q), len(c)) / max(len(q), len(c)) when one token
\* is a substring of the other and 0 otherwise, divided by the number of
\* whitespace-separated query tokens, the short ones included.
C15_ReferenceScorer ==
    call.fn = "computeRelevanceScore" =>
        RatEq(call.result, ReferenceScore(call.query, call.chunk.chunkText))

LongWords(text) ==
    LET long(w) == Len(w) >= 3 IN SelectSeq(split(toLowerCase(text)), long)

\* C16: when the chunk text is identical to the query text the score is
\* high: the score reaches the retrieval threshold 0.7, so the chunk is
\* returned by searchRelevantChunks.
C16_IdenticalTextIsReturned ==
    (call.fn = "computeRelevanceScore" /\ call.chunk.chunkText = call.query) =>
        /\ RatLeq(SIMILARITY_THRESHOLD, call.result)
        /\ searchRelevantChunks(call.query, <<call.chunk>>, 1) = <<call.chunk>>

\* C16 as amended: when the chunk text is identical to the query text, every
\* query word of length >= 3 contributes exactly 1, so the score is the
\* number of words of length >= 3 divided by the number of all words; the
\* chunk, given alone, is returned by searchRelevantChunks exactly when that
\* share is at least 0.7.
C16_IdenticalTextScore ==
    (call.fn = "computeRelevanceScore" /\ call.chunk.chunkText = call.query) =>
        LET words == split(toLowerCase(call.query))
            share == Rat(Len(LongWords(call.query)), Len(words))
        IN  /\ RatEq(call.result, share)
            /\ (searchRelevantChunks(call.query, <<call.chunk>>, 1) = <<call.chunk>>)
                  <=> RatLeq(SIMILARITY_THRESHOLD, share)

\* Identical texts of two words, one of them shorter than 3 characters
C16_Witness ==
    /\ call.fn = "computeRelevanceScore"
    /\ call.chunk.chunkText = call.query
    /\ Len(split(call.query)) = 2
    /\ Len(LongWords(call.query)) = 1

----------------------------------------------------------------------------
(* Claims about chunking *)

NonSpace(str) == LET visible(c) == ~IsSpace(c) IN SelectSeq(str, visible)

RECURSIVE Concat(_)
Concat(strs) == IF strs = <<>> THEN <<>> ELSE Head(strs) \o Concat(Tail(strs))

\* C17: for every input text, the chunks produced by chunkText and by
\* chunkContent, concatenated in order, contain exactly the input's
\* non-whitespace characters in their original order (none lost, duplicated
\* or reordered, no overlap between chunks), and no chunk is longer than
\* 1.43 times the target chunk size.
C17_ChunksCoverText ==
    call.fn \in {"chunkText", "chunkContent"} =>
        /\ NonSpace(Concat(call.result)) = NonSpace(call.text)
        /\ \A i \in DOMAIN call.result :
              100 * Len(call.result[i]) <= 143 * CHUNK_SIZE

\* chunkContent cut the first chunk at a sentence terminator before the end
\* of the window, and white space was trimmed
C17_Witness ==
    /\ call.fn = "chunkContent"
    /\ Len(call.result) >= 2
    /\ Len(call.result[1]) < CHUNK_SIZE
    /\ call.result[1][Len(call.result[1])] = "."
    /\ call.text[1] # " "
    /\ Len(Concat(call.result)) < Len(call.text)

\* chunkText produced three chunks, the second one cut at a sentence
\* terminator
C17_WitnessLong ==
    /\ call.fn = "chunkText"
    /\ Len(call.result) >= 3
    /\ Len(call.result[2]) < CHUNK_SIZE


\* The last sentence terminator inside the window [start, end), -1 when the
\* window has none
LastTerminatorIn(text, window) ==
    LET inside == {i \in window.start..(window.end - 1) :
                      text[i + 1] \in {".", "!", "?"}}
    IN  IF inside = {} THEN -1 ELSE SetMax(inside)

\* C24: in every window whose tentative end lies before the end of the
\* text, if the last sentence terminator inside the window lies at or after
\* 70% of the chunk size measured from the window start, the chunk ends
\* right after that terminator and the next window starts there; otherwise
\* the chunk is cut at the window end.  For every window, in both chunkers.
C24_SentenceBreakRule ==
    (call.fn \in {"chunkText.while", "chunkContent.while"}
       /\ call.window # NoWindow
       /\ call.window.end < Len(call.text))
    => LET last == LastTerminatorIn(call.text, call.window)
       IN  call.start =
              IF last >= 0 /\ 10 * (last - call.window.start) >= 7 * CHUNK_SIZE
              THEN last + 1 ELSE call.window.end

\* The same rule for the first window of chunkContent, the only one in which
\* its index into the window is an index into the content
C24_FirstWindowOfChunkContent ==
    (call.fn = "chunkContent.while" /\ call.window # NoWindow
       /\ call.window.start = 0)
    => C24_SentenceBreakRule

\* C25: chunkText and chunkContent terminate on every finite input: the scan
\* offset strictly increases on every loop iteration until it reaches the
\* end of the text, so the number of iterations is at most the length of
\* the text, and the loop returns when the offset is the length.
C25_LoopTerminates ==
    [][(call'.fn \in {"chunkText.while", "chunkContent.while"})
       => /\ (call.fn = call'.fn /\ call'.pc = "while")
                => call.start < call'.start
          /\ call'.iterations <= call'.start
          /\ call'.start <= Len(call'.text)
          /\ call'.pc = "returned" => call'.start = Len(call'.text)]_vars

\* A loop has returned after two iterations, the first cut at a terminator
C25_Witness ==
    /\ call.fn \in {"chunkText.while", "chunkContent.while"}
    /\ call.pc = "returned"
    /\ Len(call.chunks) >= 2
    /\ Len(call.chunks[1]) < CHUNK_SIZE

----------------------------------------------------------------------------
(* Claims about the model configuration *)

\* The configuration the claim resolves a name to: the entry of that name,
\* and the gpt-4o-mini entry for every other name
ResolvedConfig(modelName) ==
    IF modelName \in DOMAIN MODEL_CONFIGS THEN MODEL_CONFIGS[modelName]
    ELSE MODEL_CONFIGS["gpt-4o-mini"]

TokenFieldOf(config) ==
    IF config.useMaxCompletionTokens THEN "max_completion_tokens" ELSE "max_tokens"

\* C18: for every model name, unknown names being resolved to the
\* gpt-4o-mini entry, the body has exactly one token-limit field
\* (max_completion_tokens when the configuration sets useMaxCompletionTokens,
\* max_tokens otherwise), its value is the caller's maxTokens capped at the
\* configuration's maxTokensSupported, and temperature is the caller's
\* override when given, else the configuration's default.
C18_RequestBody ==
    call.fn = "buildApiRequestBody" =>
        LET config == ResolvedConfig(call.modelName)
            body == call.result
        IN  /\ DOMAIN body \cap {"max_tokens", "max_completion_tokens"}
                  = {TokenFieldOf(config)}
            /\ body[TokenFieldOf(config)]
                  = MathMin(call.maxTokens, config.maxTokensSupported)
            /\ body.temperature = IF call.temperature # Undefined
                                  THEN call.temperature
                                  ELSE config.defaultTemperature

\* The same for the names that are model names or are not property names of
\* any object
C18_RequestBodyOfOwnNames ==
    (call.fn = "buildApiRequestBody" /\ call.modelName \notin ObjectPrototype)
        => C18_RequestBody

----------------------------------------------------------------------------
(* Claims about the language-model client *)

\* C19: generateResponse sends at most one HTTP request per call; with
\* provider openai and no API key, or with an unsupported provider, it fails
\* before any request is sent; on a non-2xx response it fails with an error
\* carrying the status code and the response body text (the empty text when
\* the body cannot be read) and returns no response object.
C19_GenerateResponse ==
    call.fn = "generateResponse" =>
        /\ Len(call.requests) <= 1
        /\ ((call.provider = "openai" /\ ~Truthy(call.apiKey))
              \/ call.provider \notin {"openai", "local-wasm"})
             => /\ call.requests = <<>>
                /\ call.pc = "done"
                /\ call.outcome.kind = "error"
        /\ (call.res # NoRes /\ call.res.status \notin 200..299)
             => /\ call.outcome.kind # "response"
                /\ call.pc = "done" =>
                      call.outcome =
                          ErrorOf("OpenAI HTTP", call.res.status,
                                  IF call.res.readable THEN call.res.body ELSE "")

\* No request is ever added after the first one, and a settled call stays
\* settled
C19_NeverRetries ==
    [][call.fn = "generateResponse" =>
          /\ Len(call'.requests) <= 1
          /\ call.pc = "done" => call' = call]_vars

\* A call got a non-2xx response with a readable body and failed with it
C19_Witness ==
    /\ call.fn = "generateResponse"
    /\ call.pc = "done"
    /\ Len(call.requests) = 1
    /\ call.res.status = 429
    /\ call.res.readable
    /\ call.outcome = ErrorOf("OpenAI HTTP", 429, "quota")

----------------------------------------------------------------------------
(* Claims about the embeddings manager *)

\* The character-frequency vector of a text: bucket i counts the characters
\* whose code is i modulo the dimension
FrequencyVector(text) ==
    [i \in 0..(EMBEDDING_DIMENSION - 1) |->
        Cardinality({k \in DOMAIN text : charCodeAt(text[k]) % EMBEDDING_DIMENSION = i})]

IsFallbackEmbedding(outcome, texts) ==
    /\ outcome.kind = "vectors"
    /\ DOMAIN outcome.embeddings = DOMAIN texts
    /\ \A i \in DOMAIN texts :
          /\ outcome.embeddings[i].frequencies = FrequencyVector(texts[i])
          /\ Cardinality(DOMAIN outcome.embeddings[i].frequencies) = EMBEDDING_DIMENSION
    /\ \A i, j \in DOMAIN texts :
          texts[i] = texts[j] => outcome.embeddings[i] = outcome.embeddings[j]

\* C20: when no cloud embedding key is configured, computeEmbeddings does not
\* fail: for each text it returns the deterministic character-frequency
\* vector of length 384 (bucket charCode mod 384), and identical texts yield
\* identical vectors.
C20_EmbeddingFallback ==
    (call.fn = "EmbeddingsManager" /\ call.pc = "done" /\ ~Truthy(call.apiKey))
        => IsFallbackEmbedding(call.outcome, call.texts)

\* What the code does: the character-frequency vectors are returned exactly
\* when the provider is local-wasm, whatever the key; with provider openai
\* and no key the call fails
C20_FallbackOnlyForLocalProvider ==
    (call.fn = "EmbeddingsManager" /\ call.pc = "done") =>
        /\ call.provider = "local-wasm"
              => IsFallbackEmbedding(call.outcome, call.texts)
        /\ (call.provider = "openai" /\ ~Truthy(call.apiKey))
              => call.outcome = ErrorOf("OpenAI client not initialized", 0, "")

----------------------------------------------------------------------------
(* Claims about the template manager *)

\* The list a reader of the store sees: what getTemplates returns
StoredTemplates == getTemplatesValue(templates.stored)

\* C21: after any sequence of TemplateManager operations every default
\* template is still present in the stored list, and deleteTemplate on a
\* default template fails with an error.
C21_DefaultsKept ==
    /\ IdsOf(getDefaultTemplates) \subseteq IdsOf(StoredTemplates)
    /\ \A i \in DOMAIN StoredTemplates :
          StoredTemplates[i].id \in IdsOf(getDefaultTemplates)
             => StoredTemplates[i].isDefault

\* What the code does keep: deleteTemplate on a template flagged isDefault
\* throws and the list a reader sees is the same before and after
C21_DeleteOfFlaggedRejected ==
    [][(templates'.ret.op = "deleteTemplate"
          /\ \E i \in DOMAIN StoredTemplates :
                /\ StoredTemplates[i].isDefault
                /\ i = findIndex(StoredTemplates, StoredTemplates[i].id)
                /\ templates'.ret.error = "Cannot delete default templates")
        => getTemplatesValue(templates'.stored) = StoredTemplates]_vars

\* A payload the claim says is rejected
LacksField(entry) ==
    \E field \in {"id", "title", "prompt"} : entry[field] \in {"undefined", ""}

InvalidPayload(jsonData) ==
    \/ jsonData.parsed # "array"
    \/ \E i \in DOMAIN jsonData.value : LacksField(jsonData.value[i])

\* C22: importTemplates rejects input that is not valid JSON, is not an
\* array, or has an entry lacking id, title or prompt, with an error and
\* without a write: the stored list is the same before and after, in merge
\* and in replace mode.
C22_InvalidImportWritesNothing ==
    [][(templates'.ret.op = "importTemplates"
          /\ InvalidPayload(templates'.ret.jsonData))
        => /\ templates'.ret.error # "none"
           /\ templates'.stored = templates.stored]_vars

\* An import has failed while the store held a user template
C22_Witness ==
    /\ templates.ret.op = "importTemplates"
    /\ templates.ret.error = "Invalid template structure"
    /\ ~templates.ret.replace
    /\ \E i \in DOMAIN templates.stored : ~templates.stored[i].isDefault

\* C30: after any sequence of TemplateManager operations no two templates in
\* the stored list have the same id.
C30_UniqueIds ==
    \A i, j \in DOMAIN StoredTemplates :
        StoredTemplates[i].id = StoredTemplates[j].id => i = j

----------------------------------------------------------------------------
(* Claims about the conversation transcript *)

\* The transcript the claim describes: the last TRANSCRIPT_MESSAGES of the
\* messages whose role is not system, in order, each cut to SNIPPET_LENGTH
ClaimedTranscript(chatHistory) ==
    LET notSystem(m) == m.role # "system"
        lastN == sliceLast(SelectSeq(chatHistory, notSystem), TRANSCRIPT_MESSAGES)
        line(m) == (IF m.role = "assistant" THEN <<"Assistant">> ELSE <<"User">>)
                      \o <<":", " ">>
                      \o SubSeq(m.content, 1, IntMin(SNIPPET_LENGTH, Len(m.content)))
    IN  join([i \in DOMAIN lastN |-> line(lastN[i])], <<"\n">>)

\* C23: the conversation transcript placed in the chat prompt consists of
\* the last 8 messages of the chat history whose role is not system (all of
\* them when fewer than 8 exist), in their original order, each cut to at
\* most 800 characters.
C23_Transcript ==
    call.fn = "conversationText" =>
        call.result = ClaimedTranscript(call.chatHistory)

\* What the code does: the messages that are not system messages among the
\* last 8 messages of the history
C23_TranscriptOfLastMessages ==
    call.fn = "conversationText" =>
        LET notSystem(m) == m.role # "system"
        IN  call.result =
               ClaimedTranscript(
                   SelectSeq(sliceLast(call.chatHistory, TRANSCRIPT_MESSAGES),
                             notSystem))

----------------------------------------------------------------------------
(* Claims about TabChatManager calls in flight *)

AllDone == \A p \in DOMAIN procs : procs[p].pc = "done"

ProcKey(p) == generateContextKey(procs[p].tabId, procs[p].sessionKey)

HasRecordOfTab(contexts, tabId) ==
    \E i \in DOMAIN contexts : contexts[i].ctx.tabId = tabId

\* Two saveTabContext calls, on different composite keys, are all the calls
\* there have been, and both have completed
TwoSavesOnDifferentKeys ==
    /\ Len(procs) = 2
    /\ AllDone
    /\ \A p \in DOMAIN procs : procs[p].op = "saveTabContext"
    /\ ProcKey(1) # ProcKey(2)

\* C26: when two saveTabContext calls on different composite keys ran
\* concurrently and both have completed, the store holds the record each of
\* them saved
C26_BothEffectsPresent ==
    TwoSavesOnDifferentKeys
        => \A p \in DOMAIN procs :
              /\ HasKey(store, ProcKey(p))
              /\ Lookup(store, ProcKey(p)) = procs[p].context[1]

\* The two calls of initialize's startup pass are all the calls there have
\* been, and both have completed
StartupPassCompleted ==
    /\ Len(procs) = 2
    /\ AllDone
    /\ procs[1].op = "cleanupContexts"
    /\ procs[2].op = "validateAndCleanupTabs"

\* C27: once the startup pass of initialize has completed, the store holds
\* no record that was past MAX_AGE when cleanupContexts read the clock, at
\* most MAX_CONTEXTS records, and no record of a tab that was closed when
\* the pass started
C27_StartupPassCleans ==
    StartupPassCompleted
        => /\ \A i \in DOMAIN store : InAgeWindow(store[i].ctx, procs[1].now)
           /\ Len(store) <= MAX_CONTEXTS
           /\ \A i \in DOMAIN store : store[i].ctx.tabId \in procs[2].tabsAtCall

\* C28: once removeTabContext(tabId) has completed, and the only other
\* calls there have been are getTabContext and updateChatHistory calls
\* (saveTabContext was never called), the store holds no record of the tab
C28_RemovedStaysRemoved ==
    \A r \in DOMAIN procs :
       (/\ procs[r].op = "removeTabContext"
        /\ procs[r].pc = "done"
        /\ \A q \in DOMAIN procs \ {r} :
              procs[q].op \in {"getTabContext", "updateChatHistory"})
          => ~HasRecordOfTab(store, procs[r].tabId)

\* Only getTabContext, saveTabContext and updateChatHistory have been called
OnlyAccessCalls ==
    \A p \in DOMAIN procs :
       procs[p].op \in {"getTabContext", "saveTabContext", "updateChatHistory"}

CreatedBeforeAccessed(contexts) ==
    \A i \in DOMAIN contexts :
       contexts[i].ctx.createdAt <= contexts[i].ctx.lastAccessedAt

\* C29: while only getTabContext, saveTabContext and updateChatHistory
\* calls run, in any interleaving, every stored record has createdAt <=
\* lastAccessedAt, and the lastAccessedAt stored under a key has not gone
\* below the one a completed call stored under that key
C29_AccessTimeNeverDecreases ==
    OnlyAccessCalls
        => /\ CreatedBeforeAccessed(store)
           /\ \A p \in DOMAIN procs :
                 (procs[p].pc = "done" /\ procs[p].context # <<>>)
                    => (HasKey(store, ProcKey(p))
                          => Lookup(store, ProcKey(p)).lastAccessedAt
                                >= procs[p].context[1].lastAccessedAt)

\* The first half of C29 alone: every stored record has createdAt <=
\* lastAccessedAt, whatever calls are in flight
C29_CreatedBeforeAccessed == CreatedBeforeAccessed(store)

====
